---- MODULE Spec2Model ----
(***************************************************************************)
(* A model of dts-bundler: the alias hierarchy resolver                    *)
(* (path-hierarchy-resolver), the entry-level dependency graph             *)
(* (dependency-graph), the per-entry bundler (enhanced-bundler) and the    *)
(* run driver main() (config-manager).                                     *)
(*                                                                         *)
(* JavaScript Sets and Maps iterate in insertion order, so a Set is        *)
(* modelled as a sequence without repetition and a Map as a function       *)
(* together with the sequence of its keys.                                 *)
(***************************************************************************)
EXTENDS Integers, Sequences, FiniteSets, TLC

\* ------------------------------------------------------------------ bounds
\* Distinct canonical declaration files of the graph specification.
NumFiles == 4
\* Entry points handed to the DependencyGraph constructor.
MaxEntries == 5
\* Size of one entry's dependency set.
MaxDeps == 2
\* Entry points of the hierarchy specification, and segments of one alias.
MaxAliases == 3
MaxSegments == 3
\* Entry points of one run of main, segments of their aliases, and the
\* dependencies of one of them.
MaxRunEntries == 3
MaxRunSegments == 2
MaxRunDeps == 1
\* Diagnostics one type-check reports.
MaxDiagnostics == 1
\* Entry points of the bundler specification, the bundles one behaviour
\* generates, and the length of the specifiers the alias is computed on.
MaxBundleEntries == 2
MaxBundles == 3
MaxSpecifierLength == 3

\* No file of the program model holds more statements than this.
MaxStatements == 3

\* ------------------------------------------------- the dependency graph
VARIABLES
  nodes,    \* DependencyGraph.nodes: string[]
  edges,    \* DependencyGraph.edges: Map<string, Set<string>>
  cycles,   \* DependencyGraph.cycles: string[][]
  order,    \* the array returned by topoSort()
  gpc       \* how far the graph's life has got: "edges", "built", "sorted"

graphVars == <<nodes, edges, cycles, order, gpc>>

\* ------------------------------------------- the alias hierarchy resolver
VARIABLES
  entryPoints,        \* the DtsEntryPoint[] built by getDtsEntryPoints
  withRelativePaths,  \* main's withRelativePaths
  hpc                 \* "entries", "relative", "paths"

hierVars == <<entryPoints, withRelativePaths, hpc>>

\* ------------------------------------------------------- one run of main
VARIABLES
  rpc,        \* main's position
  exitCode,   \* the process's exit status once it has ended; -1 while it runs
  pos,        \* the 1-based index of `file` in the for loop over order
  outputFile, \* the loop's outputFile
  disk,       \* the output files on disk: path -> the text written
  bundlers,   \* the entry of every DTSBundler instance created
  generated,  \* the entry of every generateBundle() call
  writeLog,   \* every writeFile of bundle(): <<path, text>>
  thrown,     \* what main's catch caught: "", "compile", "find", "validate"
  compileDiagnostics,    \* ts.getPreEmitDiagnostics(program).length in generate()
  validationDiagnostics  \* the same for the validation program of the written file

runVars == <<rpc, exitCode, pos, outputFile, disk, bundlers, generated, writeLog,
             thrown, compileDiagnostics, validationDiagnostics>>

\* ------------------------------------- the graph's files and the bundler
VARIABLES
  files,           \* the program's source files, in order: [fileName, statements]
  dtsEntryPoints,  \* main's dtsEntryPoints: [alias, dtsFile]
  specifierToDts,  \* DependencyGraph.specifierToDts
  entryRoots,      \* DependencyGraph.entryRoots
  exportedTypes,   \* DependencyGraph.exportedTypes
  importedTypes,   \* DependencyGraph.importedTypes
  bundler,         \* the DTSBundler instance created last
  outputs,         \* what every bundle() produced: [entryPoint, threw, text]
  bpc              \* "files", "ready", "created"

bundleVars == <<files, dtsEntryPoints, specifierToDts, entryRoots, exportedTypes,
                importedTypes, bundler, outputs, bpc>>

Null == <<"null">>

NoInstance ==
  [entryPoint |-> Null, baseDir |-> <<>>, threw |-> FALSE,
   fields |-> [exportedSymbols |-> <<>>, typeReferences |-> <<>>,
               processedFiles |-> <<>>, externalImports |-> <<>>]]

\* The parts of the state a specification does not use stay as they are
\* before the program touches them.
BundleIdle ==
  /\ files = <<>> /\ dtsEntryPoints = <<>>
  /\ specifierToDts = <<>> /\ entryRoots = <<>>
  /\ exportedTypes = <<>> /\ importedTypes = <<>>
  /\ bundler = NoInstance /\ outputs = <<>> /\ bpc = "idle"

GraphIdle == nodes = <<>> /\ edges = <<>> /\ cycles = <<>> /\ order = <<>> /\ gpc = "idle"

HierIdle == entryPoints = <<>> /\ withRelativePaths = <<>> /\ hpc = "idle"

RunIdle ==
  /\ rpc = "idle" /\ exitCode = -1 /\ pos = 0 /\ outputFile = <<>> /\ disk = <<>>
  /\ bundlers = <<>> /\ generated = <<>> /\ writeLog = <<>> /\ thrown = ""
  /\ compileDiagnostics = 0 /\ validationDiagnostics = 0

\* ------------------------------------------------ arrays, Sets and Maps
Range(s) == {s[i] : i \in 1..Len(s)}

\* Array.prototype.indexOf, 1-based; 0 when absent.
IndexOf(s, x) ==
  IF x \in Range(s) THEN CHOOSE i \in 1..Len(s) : s[i] = x /\ \A j \in 1..(i-1) : s[j] # x
  ELSE 0

\* Array.prototype.includes / Set.prototype.has on an insertion-ordered Set.
Includes(s, x) == x \in Range(s)

\* Set.prototype.add on an insertion-ordered Set.
SetAdd(s, x) == IF Includes(s, x) THEN s ELSE Append(s, x)

\* The keys of a Map filled by one set() per element of s, in insertion order.
RECURSIVE MapKeys(_)
MapKeys(s) ==
  IF s = <<>> THEN <<>>
  ELSE LET init == MapKeys(SubSeq(s, 1, Len(s) - 1))
       IN SetAdd(init, s[Len(s)])

NoDup(s) == \A i, j \in 1..Len(s) : i # j => s[i] # s[j]

\* ------------------------------------------------------- detectCycles
\* dfs(node, pathStack) of detectCycles; st holds the closure's visited and
\* stack Sets, the pathStack array and this.cycles.
RECURSIVE Dfs(_, _, _), DfsEach(_, _, _, _)
\* dfs with its two early returns swapped: visited is tested before stack.
DfsVisitedFirst(E, node, st) ==
  IF node \in st.visited THEN st
  ELSE IF node \in st.stack
  THEN [st EXCEPT !.cycles =
          Append(@, SubSeq(st.path, IndexOf(st.path, node), Len(st.path)) \o <<node>>)]
  ELSE LET entered == [st EXCEPT !.visited = @ \cup {node},
                                 !.stack = @ \cup {node},
                                 !.path = Append(@, node)]
           after == DfsEach(E, E[node], 1, entered)
       IN [after EXCEPT !.stack = @ \ {node},
                        !.path = SubSeq(@, 1, Len(@) - 1)]

\* dfs without the visited Set: a node is searched again from every root
\* and along every path that reaches it.
DfsWithoutVisited(E, node, st) ==
  IF node \in st.stack
  THEN [st EXCEPT !.cycles =
          Append(@, SubSeq(st.path, IndexOf(st.path, node), Len(st.path)) \o <<node>>)]
  ELSE LET entered == [st EXCEPT !.stack = @ \cup {node},
                                 !.path = Append(@, node)]
           after == DfsEach(E, E[node], 1, entered)
       IN [after EXCEPT !.stack = @ \ {node},
                        !.path = SubSeq(@, 1, Len(@) - 1)]

\* dfs that records the whole pathStack instead of its slice from the
\* revisited node.
DfsWholePath(E, node, st) ==
  IF node \in st.stack
  THEN [st EXCEPT !.cycles = Append(@, st.path \o <<node>>)]
  ELSE IF node \in st.visited THEN st
  ELSE LET entered == [st EXCEPT !.visited = @ \cup {node},
                                 !.stack = @ \cup {node},
                                 !.path = Append(@, node)]
           after == DfsEach(E, E[node], 1, entered)
       IN [after EXCEPT !.stack = @ \ {node},
                        !.path = SubSeq(@, 1, Len(@) - 1)]

Dfs(E, node, st) ==
  IF node \in st.stack
  THEN [st EXCEPT !.cycles =
          Append(@, SubSeq(st.path, IndexOf(st.path, node), Len(st.path)) \o <<node>>)]
  ELSE IF node \in st.visited THEN st
  ELSE LET entered == [st EXCEPT !.visited = @ \cup {node},
                                 !.stack = @ \cup {node},
                                 !.path = Append(@, node)]
           after == DfsEach(E, E[node], 1, entered)
       IN [after EXCEPT !.stack = @ \ {node},
                        !.path = SubSeq(@, 1, Len(@) - 1)]

DfsEach(E, deps, i, st) ==
  IF i > Len(deps) THEN st
  ELSE DfsEach(E, deps, i + 1, Dfs(E, deps[i], st))

\* for (const node of this.nodes) dfs(node, [])
RECURSIVE DfsRoots(_, _, _, _)
DfsRoots(N, E, i, st) ==
  IF i > Len(N) THEN st
  ELSE DfsRoots(N, E, i + 1, Dfs(E, N[i], [st EXCEPT !.path = <<>>]))

DetectCycles(N, E) ==
  DfsRoots(N, E, 1, [visited |-> {}, stack |-> {}, path |-> <<>>, cycles |-> <<>>]).cycles

\* ------------------------------------------------------------ topoSort
\* The first loops of topoSort: inDegree and outEdges from this.edges.
RECURSIVE CountDeps(_, _, _, _)
CountDeps(node, deps, i, acc) ==
  IF i > Len(deps) THEN acc
  ELSE CountDeps(node, deps, i + 1,
         [inDegree |-> [acc.inDegree EXCEPT ![node] = @ + 1],
          outEdges |-> [acc.outEdges EXCEPT ![deps[i]] = SetAdd(@, node)]])

RECURSIVE CountEdges(_, _, _, _)
CountEdges(keys, E, i, acc) ==
  IF i > Len(keys) THEN acc
  ELSE CountEdges(keys, E, i + 1, CountDeps(keys[i], E[keys[i]], 1, acc))

\* for (const o of outEdges.get(n)) { inDegree--; if (=== 0) queue.push(o) }
RECURSIVE Release(_, _, _)
Release(outs, i, st) ==
  IF i > Len(outs) THEN st
  ELSE LET o == outs[i]
           d == st.inDegree[o] - 1
       IN Release(outs, i + 1,
            [st EXCEPT !.inDegree[o] = d,
                       !.queue = IF d = 0 THEN Append(@, o) ELSE @])

\* while (queue.length) { n = queue.shift(); order.push(n); ... }
RECURSIVE Drain(_, _)
Drain(st, outEdges) ==
  IF st.queue = <<>> THEN st
  ELSE LET n == Head(st.queue)
           popped == [st EXCEPT !.queue = Tail(@), !.order = Append(@, n)]
       IN Drain(Release(outEdges[n], 1, popped), outEdges)

TopoSort(N, E) ==
  LET F == Range(N)
      counted == CountEdges(MapKeys(N), E, 1,
                   [inDegree |-> [n \in F |-> 0], outEdges |-> [n \in F |-> <<>>]])
      ready == SelectSeq(N, LAMBDA n : counted.inDegree[n] = 0)
      drained == Drain([queue |-> ready, order |-> <<>>, inDegree |-> counted.inDegree],
                       counted.outEdges)
      remaining == SelectSeq(N, LAMBDA n : ~Includes(drained.order, n))
  IN drained.order \o remaining

\* ------------------------------------------ the graph specification
\* Files are numbered in the order in which the entry list first names them;
\* one file may be named by several entry points (two aliases with one
\* target, or wildcard-expanded entries, whose dtsFile is '').
EntryLists ==
  {s \in UNION {[1..k -> 1..NumFiles] : k \in 1..MaxEntries} :
      \A i \in 1..Len(s) : \A v \in 1..(s[i] - 1) : \E j \in 1..(i - 1) : s[j] = v}

\* The dependency Sets buildEdges can leave for entry n: no self-edge, every
\* target a node, in any insertion order.
DepSets(F, n, max) ==
  {d \in UNION {[1..j -> F \ {n}] : j \in 0..max} : NoDup(d)}

RECURSIVE EdgeMaps(_, _, _)
EdgeMaps(F, R, max) ==
  IF R = {} THEN {<<>>}
  ELSE LET n == CHOOSE x \in R : TRUE
       IN {(n :> d) @@ m : d \in DepSets(F, n, max), m \in EdgeMaps(F, R \ {n}, max)}

\* The graph's variables while another component is under study.
GraphInit ==
  /\ nodes \in EntryLists
  /\ edges \in EdgeMaps(Range(nodes), Range(nodes), MaxDeps)
  /\ cycles = <<>>
  /\ order = <<>>
  /\ gpc = "edges"
  /\ HierIdle
  /\ RunIdle
  /\ BundleIdle

\* The constructor's last call: this.detectCycles().
ConstructorDetectCycles ==
  /\ gpc = "edges"
  /\ cycles' = DetectCycles(nodes, edges)
  /\ gpc' = "built"
  /\ UNCHANGED <<nodes, edges, order>>
  /\ UNCHANGED <<hierVars, runVars, bundleVars>>

\* A caller's graph.topoSort().
CallTopoSort ==
  /\ gpc = "built"
  /\ order' = TopoSort(nodes, edges)
  /\ gpc' = "sorted"
  /\ UNCHANGED <<nodes, edges, cycles>>
  /\ UNCHANGED <<hierVars, runVars, bundleVars>>

GraphNext == ConstructorDetectCycles \/ CallTopoSort

\* ------------------------------------------------------------ strings
\* A string is the sequence of its characters.
Undefined == <<"undefined">>

StartsWith(str, prefix) ==
  Len(prefix) <= Len(str) /\ SubSeq(str, 1, Len(prefix)) = prefix

\* String.prototype.split(sep) for a one-character separator.
RECURSIVE SplitFrom(_, _, _, _)
SplitFrom(str, sep, i, cur) ==
  IF i > Len(str) THEN <<cur>>
  ELSE IF str[i] = sep THEN <<cur>> \o SplitFrom(str, sep, i + 1, <<>>)
  ELSE SplitFrom(str, sep, i + 1, Append(cur, str[i]))

Split(str, sep) == SplitFrom(str, sep, 1, <<>>)

\* Array.prototype.join(sep).
RECURSIVE Join(_, _)
Join(parts, sep) ==
  IF parts = <<>> THEN <<>>
  ELSE IF Len(parts) = 1 THEN parts[1]
  ELSE parts[1] \o <<sep>> \o Join(Tail(parts), sep)

NonEmpty(parts) == SelectSeq(parts, LAMBDA x : x # <<>>)

\* alias.split('/').filter(s => s)
Segments(str) == NonEmpty(Split(str, "/"))

\* path.posix.normalize of a relative path: '.' and empty segments go, '..'
\* takes back the segment before it, and the empty result is '.'.
RECURSIVE NormalizeSegments(_, _, _)
NormalizeSegments(segs, i, acc) ==
  IF i > Len(segs) THEN acc
  ELSE IF segs[i] = <<>> \/ segs[i] = <<".">> THEN NormalizeSegments(segs, i + 1, acc)
  ELSE IF segs[i] = <<".", ".">> /\ acc # <<>> /\ acc[Len(acc)] # <<".", ".">>
       THEN NormalizeSegments(segs, i + 1, SubSeq(acc, 1, Len(acc) - 1))
  ELSE NormalizeSegments(segs, i + 1, Append(acc, segs[i]))

\* path.posix.join(...parts) for relative parts.
PosixJoin(parts) ==
  LET joined == Join(NonEmpty(parts), "/")
      norm == Join(NormalizeSegments(Split(joined, "/"), 1, <<>>), "/")
  IN IF norm = <<>> THEN <<".">> ELSE norm

\* ------------------------------------------------------ buildHierarchy
\* findCommonPrefix, as the length of the common prefix.
RECURSIVE CommonPrefixLength(_, _, _)
CommonPrefixLength(a, b, i) ==
  IF i > Len(a) \/ i > Len(b) THEN i - 1
  ELSE IF a[i] = b[i] THEN CommonPrefixLength(a, b, i + 1)
  ELSE i - 1

FindCommonPrefix(a, b) == SubSeq(a, 1, CommonPrefixLength(a, b, 1))

RECURSIVE MaxLength(_)
MaxLength(s) ==
  IF s = <<>> THEN 0
  ELSE LET m == MaxLength(Tail(s))
       IN IF Len(s[1].segments) > m THEN Len(s[1].segments) ELSE m

\* nodes.sort((a, b) => a.segments.length - b.segments.length): a stable sort.
RECURSIVE SortFrom(_, _, _)
SortFrom(s, k, max) ==
  IF k > max THEN <<>>
  ELSE SelectSeq(s, LAMBDA x : Len(x.segments) = k) \o SortFrom(s, k + 1, max)

SortBySegmentCount(s) == SortFrom(s, 0, MaxLength(s))

\* The inner loop of buildHierarchy: the index of the best parent of
\* sorted[i] among sorted[1..i-1], 0 when there is none.
RECURSIVE BestParent(_, _, _, _, _)
BestParent(sorted, i, j, best, longest) ==
  IF j >= i THEN best
  ELSE LET common == FindCommonPrefix(sorted[i].segments, sorted[j].segments)
       IN IF /\ Len(common) = Len(sorted[j].segments)
             /\ Len(common) > longest
             /\ Len(common) < Len(sorted[i].segments)
          THEN BestParent(sorted, i, j + 1, j, Len(common))
          ELSE BestParent(sorted, i, j + 1, best, longest)

\* buildHierarchy: the sorted PathNodes, each with the index of its parent
\* (0: a root) and the indices of its children in push order.
BuildHierarchy(eps) ==
  LET sorted == SortBySegmentCount(
                  [i \in 1..Len(eps) |-> [alias |-> eps[i].alias,
                                          segments |-> eps[i].aliasSegments]])
      parent == [i \in 1..Len(sorted) |-> BestParent(sorted, i, 1, 0, 0)]
  IN [i \in 1..Len(sorted) |->
        [alias |-> sorted[i].alias,
         segments |-> sorted[i].segments,
         parent |-> parent[i],
         children |-> SelectSeq([k \in 1..Len(sorted) |-> k],
                                LAMBDA k : parent[k] = i)]]

\* ------------------------------------------------ calculateRelativePaths
\* entryPoints.find(ep => ep.alias === alias): the index, 0 when absent.
FindByAlias(eps, alias) ==
  IF \E i \in 1..Len(eps) : eps[i].alias = alias
  THEN CHOOSE i \in 1..Len(eps) :
         eps[i].alias = alias /\ \A j \in 1..(i - 1) : eps[j].alias # alias
  ELSE 0

\* The relativePath local of processNode.
NodeRelativePath(tree, n, parentRelativePath) ==
  IF tree[n].parent # 0
  THEN LET remaining == SubSeq(tree[n].segments,
                               Len(tree[tree[n].parent].segments) + 1,
                               Len(tree[n].segments))
       IN IF Len(remaining) > 0 THEN PosixJoin(<<parentRelativePath>> \o remaining)
          ELSE IF parentRelativePath # <<>> THEN parentRelativePath ELSE <<".">>
  ELSE <<".">>

\* relativePath.startsWith('.') ? relativePath : './' + relativePath
WithDotSlash(relativePath) ==
  IF StartsWith(relativePath, <<".">>) THEN relativePath
  ELSE <<".", "/">> \o relativePath

RECURSIVE ProcessNode(_, _, _, _, _), ProcessChildren(_, _, _, _, _, _)
ProcessNode(tree, eps, n, parentRelativePath, result) ==
  LET relativePath == NodeRelativePath(tree, n, parentRelativePath)
      parentAlias == IF tree[n].parent # 0 THEN tree[tree[n].parent].alias ELSE Undefined
      original == FindByAlias(eps, tree[n].alias)
      pushed == IF original # 0
                THEN Append(result, [alias |-> eps[original].alias,
                                     aliasSegments |-> eps[original].aliasSegments,
                                     inputFile |-> eps[original].inputFile,
                                     dtsFile |-> eps[original].dtsFile,
                                     relativePath |-> WithDotSlash(relativePath),
                                     parentAlias |-> parentAlias])
                ELSE result
  IN ProcessChildren(tree, eps, tree[n].children, 1, relativePath, pushed)

ProcessChildren(tree, eps, children, i, relativePath, result) ==
  IF i > Len(children) THEN result
  ELSE ProcessChildren(tree, eps, children, i + 1, relativePath,
                       ProcessNode(tree, eps, children[i], relativePath, result))

CalculateRelativePaths(eps) ==
  LET tree == BuildHierarchy(eps)
      roots == SelectSeq([k \in 1..Len(tree) |-> k], LAMBDA k : tree[k].parent = 0)
  IN ProcessChildren(tree, eps, roots, 1, <<>>, <<>>)

\* calculateDtsFilePath, as the path below outDir.
CalculateDtsFilePath(relativePath) ==
  LET rp == IF relativePath = <<>> THEN <<".">> ELSE relativePath
  IN IF rp = <<".">> THEN <<"i", "n", "d", "e", "x", ".", "d", ".", "t", "s">>
     ELSE LET cleanPath == IF StartsWith(rp, <<".", "/">>) THEN SubSeq(rp, 3, Len(rp)) ELSE rp
          IN PosixJoin(<<cleanPath, <<"i", "n", "d", "e", "x", ".", "d", ".", "t", "s">>>>)

\* ------------------------------------- the hierarchy specification
\* The names an alias segment may have.
SegmentNames == {<<"a">>, <<"b">>, <<".", "c">>}

\* The aliases of the entry points: up to MaxSegments segments, or none (the
\* alias '' that expandWildcardPattern gives the base directory of "*").
AliasStrings ==
  {Join(segs, "/") : segs \in UNION {[1..k -> SegmentNames] : k \in 0..MaxSegments}}

\* A file is named by a number: target t stands for the source file the
\* alias maps to, and for <outDir>/<target with .ts replaced by .d.ts>.
\* getDtsEntryPoints for an exact alias (no wildcard): inputFile is the
\* target and dtsFile the declaration file of the target.
ExactEntryPoint(alias, target) ==
  [alias |-> alias, aliasSegments |-> Segments(alias),
   inputFile |-> target, dtsFile |-> target]

\* The dtsFile '' of an entry found by expandWildcardPattern.
EmptyPath == 0

\* expandWildcardPattern: inputFile is the matched directory (-dir here, no
\* declaration file), and dtsFile is ''.
WildcardEntryPoint(alias, dir) ==
  [alias |-> alias, aliasSegments |-> Segments(alias),
   inputFile |-> 0 - dir, dtsFile |-> EmptyPath]

HierInit ==
  /\ \E as \in UNION {[1..k -> AliasStrings] : k \in 1..MaxAliases} :
        /\ NoDup(as)
        /\ entryPoints = [i \in 1..Len(as) |-> ExactEntryPoint(as[i], i)]
  /\ withRelativePaths = <<>>
  /\ hpc = "entries"
  /\ GraphIdle
  /\ RunIdle
  /\ BundleIdle

\* main: withRelativePaths = PathHierarchyResolver.calculateRelativePaths(...)
CallCalculateRelativePaths ==
  /\ hpc = "entries"
  /\ withRelativePaths' = CalculateRelativePaths(entryPoints)
  /\ hpc' = "relative"
  /\ UNCHANGED entryPoints
  /\ UNCHANGED <<graphVars, runVars, bundleVars>>

\* main's third pass: inputFile becomes the declaration file of the target
\* below outDir (for a wildcard entry: the matched directory, which is no
\* declaration file), and dtsFile the output path of calculateDtsFilePath.
ThirdPass(eps) ==
  [i \in 1..Len(eps) |->
     [alias |-> eps[i].alias,
      aliasSegments |-> eps[i].aliasSegments,
      relativePath |-> eps[i].relativePath,
      parentAlias |-> eps[i].parentAlias,
      inputFile |-> eps[i].inputFile,
      dtsFile |-> CalculateDtsFilePath(eps[i].relativePath)]]

\* main: the map that sets every entry's dtsFile from calculateDtsFilePath.
CallCalculateDtsFilePaths ==
  /\ hpc = "relative"
  /\ withRelativePaths' = ThirdPass(withRelativePaths)
  /\ hpc' = "paths"
  /\ UNCHANGED entryPoints
  /\ UNCHANGED <<graphVars, runVars, bundleVars>>

HierNext == CallCalculateRelativePaths \/ CallCalculateDtsFilePaths

\* ------------------------------------------------------------- main()
\* if (diagnostics.length > 0) of validateOutput.
HasDiagnostics(n) == n > 0

\* generate() with the if dropped: the diagnostics are printed, nothing is thrown.
GenerateNeverFails(n) == FALSE

\* if (diagnostics.length > 0) of DTSGenerator.generate.
GenerateFails(n) == n > 0

\* An exit that removes the output files of the run.
ProcessExitWithRollback(code) ==
  /\ rpc' = "exit"
  /\ exitCode' = code
  /\ disk' = <<>>

\* process.exit(code) from main: nothing on disk is cleaned up.
ProcessExit(code) ==
  /\ rpc' = "exit"
  /\ exitCode' = code
  /\ disk' = disk

\* withRelativePaths.find(e => e.inputFile === file): the index, 0 when absent.
FindByInputFile(eps, file) ==
  IF \E i \in 1..Len(eps) : eps[i].inputFile = file
  THEN CHOOSE i \in 1..Len(eps) :
         eps[i].inputFile = file /\ \A j \in 1..(i - 1) : eps[j].inputFile # file
  ELSE 0

\* The text generateBundle returns for an entry; its content is the subject
\* of the bundle specification.
BundleText(file) == <<"bundle", file>>

\* fs.promises.writeFile(outputFile, bundledContent)
WriteFile(d, path, text) == (path :> text) @@ d

\* if (dtsEntryPoints.length === 0) process.exit(1)
ExitNoEntryPoints ==
  /\ rpc = "start"
  /\ Len(entryPoints) = 0
  /\ ProcessExit(1)
  /\ UNCHANGED thrown
  /\ UNCHANGED <<pos, outputFile, bundlers, generated, writeLog>>
  /\ UNCHANGED <<compileDiagnostics, validationDiagnostics>>
  /\ UNCHANGED <<graphVars, hierVars, bundleVars>>

\* generator.generate() with compilation diagnostics: it throws, and the
\* catch of main ends the process.
GenerateThrows ==
  /\ rpc = "start"
  /\ Len(entryPoints) > 0
  /\ \E d \in 0..MaxDiagnostics : GenerateFails(d) /\ compileDiagnostics' = d
  /\ thrown' = "compile"
  /\ ProcessExit(1)
  /\ UNCHANGED <<pos, outputFile, bundlers, generated, writeLog>>
  /\ UNCHANGED validationDiagnostics
  /\ UNCHANGED <<graphVars, hierVars, bundleVars>>

\* generator.generate() without diagnostics returns the declaration files.
GenerateReturns ==
  /\ rpc = "start"
  /\ Len(entryPoints) > 0
  /\ \E d \in 0..MaxDiagnostics : ~GenerateFails(d) /\ compileDiagnostics' = d
  /\ rpc' = "compiled"
  /\ UNCHANGED <<exitCode, pos, outputFile, disk, bundlers, generated, writeLog>>
  /\ UNCHANGED <<thrown, validationDiagnostics>>
  /\ UNCHANGED <<graphVars, hierVars, bundleVars>>

\* new DependencyGraph(files, entries, options): the nodes, the edges found
\* in the declaration files (an entry with dtsFile '' has no file and no
\* edge), and the cycles.
NewDependencyGraph ==
  /\ rpc = "compiled"
  /\ LET N == [i \in 1..Len(entryPoints) |-> entryPoints[i].dtsFile]
         real == Range(N) \ {EmptyPath}
     IN /\ nodes' = N
        /\ \E E \in EdgeMaps(real, real, MaxRunDeps) :
              /\ edges' = E @@ [n \in Range(N) |-> <<>>]
              /\ cycles' = DetectCycles(N, E @@ [n \in Range(N) |-> <<>>])
  /\ gpc' = "built"
  /\ rpc' = "graph"
  /\ UNCHANGED <<exitCode, pos, outputFile, disk, bundlers, generated, writeLog>>
  /\ UNCHANGED <<thrown, compileDiagnostics, validationDiagnostics>>
  /\ UNCHANGED <<order, hierVars, bundleVars>>

\* const order = graph.topoSort()
MainTopoSort ==
  /\ rpc = "graph"
  /\ order' = TopoSort(nodes, edges)
  /\ gpc' = "sorted"
  /\ rpc' = "ordered"
  /\ UNCHANGED <<exitCode, pos, outputFile, disk, bundlers, generated, writeLog>>
  /\ UNCHANGED <<thrown, compileDiagnostics, validationDiagnostics>>
  /\ UNCHANGED <<nodes, edges, cycles, hierVars, bundleVars>>

\* The second and third pass of main over the entry points.
MainRelativePaths ==
  /\ rpc = "ordered"
  /\ withRelativePaths' = ThirdPass(CalculateRelativePaths(entryPoints))
  /\ hpc' = "paths"
  /\ pos' = 1
  /\ rpc' = "loop"
  /\ UNCHANGED <<exitCode, outputFile, disk, bundlers, generated, writeLog>>
  /\ UNCHANGED <<thrown, compileDiagnostics, validationDiagnostics>>
  /\ UNCHANGED <<graphVars, entryPoints, bundleVars>>

\* The loop is over: main returns and the process ends with status 0.
LoopEnds ==
  /\ rpc = "loop"
  /\ pos > Len(order)
  /\ rpc' = "done"
  /\ exitCode' = 0
  /\ UNCHANGED <<pos, outputFile, disk, bundlers, generated, writeLog>>
  /\ UNCHANGED <<thrown, compileDiagnostics, validationDiagnostics>>
  /\ UNCHANGED <<graphVars, hierVars, bundleVars>>

\* No entry has this inputFile: find() returns undefined, reading .dtsFile
\* throws a TypeError and the catch of main ends the process.
FindThrows ==
  /\ rpc = "loop"
  /\ pos <= Len(order)
  /\ FindByInputFile(withRelativePaths, order[pos]) = 0
  /\ thrown' = "find"
  /\ ProcessExit(1)
  /\ UNCHANGED <<pos, outputFile, bundlers, generated, writeLog>>
  /\ UNCHANGED <<compileDiagnostics, validationDiagnostics>>
  /\ UNCHANGED <<graphVars, hierVars, bundleVars>>

\* bundle() throws before anything is written (the ReferenceError of
\* processExportDeclaration in the collect pass); main's catch ends the run.
BundleThrows ==
  /\ rpc = "bundle"
  /\ thrown' = "bundle"
  /\ ProcessExit(1)
  /\ UNCHANGED <<pos, outputFile, bundlers, generated, writeLog>>
  /\ UNCHANGED <<compileDiagnostics, validationDiagnostics>>
  /\ UNCHANGED <<graphVars, hierVars, bundleVars>>

\* outputFile = find(...).dtsFile; bundler = new DTSBundler(options, graph)
NewBundler ==
  /\ rpc = "loop"
  /\ pos <= Len(order)
  /\ FindByInputFile(withRelativePaths, order[pos]) # 0
  /\ outputFile' = withRelativePaths[FindByInputFile(withRelativePaths, order[pos])].dtsFile
  /\ bundlers' = Append(bundlers, order[pos])
  /\ rpc' = "bundle"
  /\ UNCHANGED <<exitCode, pos, disk, generated, writeLog>>
  /\ UNCHANGED <<thrown, compileDiagnostics, validationDiagnostics>>
  /\ UNCHANGED <<graphVars, hierVars, bundleVars>>

\* bundle(), up to and including the writeFile: the text is on disk before
\* it is validated.
BundleWrites ==
  /\ rpc = "bundle"
  /\ generated' = Append(generated, order[pos])
  /\ disk' = WriteFile(disk, outputFile, BundleText(order[pos]))
  /\ writeLog' = Append(writeLog, <<outputFile, BundleText(order[pos])>>)
  /\ validationDiagnostics' \in 0..MaxDiagnostics
  /\ rpc' = "validate"
  /\ UNCHANGED <<exitCode, pos, outputFile, bundlers, thrown, compileDiagnostics>>
  /\ UNCHANGED <<graphVars, hierVars, bundleVars>>

\* validateOutput() finds no diagnostic: bundle() returns, the loop goes on.
ValidateReturns ==
  /\ rpc = "validate"
  /\ ~HasDiagnostics(validationDiagnostics)
  /\ pos' = pos + 1
  /\ rpc' = "loop"
  /\ UNCHANGED <<exitCode, outputFile, disk, bundlers, generated, writeLog>>
  /\ UNCHANGED <<thrown, compileDiagnostics, validationDiagnostics>>
  /\ UNCHANGED <<graphVars, hierVars, bundleVars>>

\* validateOutput() finds a diagnostic: it throws 'Invalid bundled output'
\* and the catch of main ends the process.
ValidateThrows ==
  /\ rpc = "validate"
  /\ HasDiagnostics(validationDiagnostics)
  /\ thrown' = "validate"
  /\ ProcessExit(1)
  /\ UNCHANGED <<pos, outputFile, bundlers, generated, writeLog>>
  /\ UNCHANGED <<compileDiagnostics, validationDiagnostics>>
  /\ UNCHANGED <<graphVars, hierVars, bundleVars>>

RunNext ==
  \/ ExitNoEntryPoints
  \/ GenerateThrows
  \/ GenerateReturns
  \/ NewDependencyGraph
  \/ MainTopoSort
  \/ MainRelativePaths
  \/ LoopEnds
  \/ FindThrows
  \/ NewBundler
  \/ BundleThrows
  \/ BundleWrites
  \/ ValidateReturns
  \/ ValidateThrows

\* The aliases of a run.
RunAliasStrings ==
  {Join(segs, "/") :
     segs \in UNION {[1..j -> {<<"a">>, <<"b">>}] : j \in 1..MaxRunSegments}}

\* The targets of a list of n aliases: an alias maps to a source file of its
\* own or to the source file of an alias listed before it.
RunTargets(n) == {tg \in [1..n -> 1..n] : \A i \in 1..n : tg[i] <= i}

\* The entry points getDtsEntryPoints returns: exact aliases, two of which
\* may name the same target, and entries expanded from a wildcard alias.
RunInit ==
  /\ \E as \in UNION {[1..j -> RunAliasStrings] : j \in 0..MaxRunEntries} :
        /\ NoDup(as)
        /\ \E wild \in SUBSET (1..Len(as)) : \E tg \in RunTargets(Len(as)) :
              entryPoints = [i \in 1..Len(as) |->
                               IF i \in wild THEN WildcardEntryPoint(as[i], i)
                               ELSE ExactEntryPoint(as[i], tg[i])]
  /\ withRelativePaths = <<>>
  /\ hpc = "entries"
  /\ nodes = <<>> /\ edges = <<>> /\ cycles = <<>> /\ order = <<>> /\ gpc = "new"
  /\ BundleIdle
  /\ rpc = "start"
  /\ exitCode = -1
  /\ pos = 0
  /\ outputFile = <<>>
  /\ disk = <<>>
  /\ bundlers = <<>>
  /\ generated = <<>>
  /\ writeLog = <<>>
  /\ thrown = ""
  /\ compileDiagnostics = 0
  /\ validationDiagnostics = 0

\* ---------------------------------------------- characters and sorting
Digits == <<"0", "1", "2", "3", "4", "5", "6", "7", "8", "9">>

UpperCase == <<"A", "B", "C", "D", "E", "F", "G", "H", "I", "J", "K", "L", "M",
               "N", "O", "P", "Q", "R", "S", "T", "U", "V", "W", "X", "Y", "Z">>

LowerCase == <<"a", "b", "c", "d", "e", "f", "g", "h", "i", "j", "k", "l", "m",
               "n", "o", "p", "q", "r", "s", "t", "u", "v", "w", "x", "y", "z">>

\* The characters of specifiers and names in the order of their UTF-16 code
\* units, which is the order Array.prototype.sort() compares strings by.
CodeOrder == <<"-", ".", "/">> \o Digits \o <<"@">> \o UpperCase \o <<"_">> \o LowerCase

CharCode(c) == IndexOf(CodeOrder, c)

\* [a-zA-Z0-9]
IsAlphaNumeric(c) == c \in Range(Digits) \cup Range(UpperCase) \cup Range(LowerCase)

\* a < b for two strings, as the default comparator of sort() decides it.
RECURSIVE StringLess(_, _)
StringLess(a, b) ==
  IF b = <<>> THEN FALSE
  ELSE IF a = <<>> THEN TRUE
  ELSE IF a[1] = b[1] THEN StringLess(Tail(a), Tail(b))
  ELSE CharCode(a[1]) < CharCode(b[1])

\* Array.prototype.sort() on an array of distinct strings.
RECURSIVE SortStrings(_)
SortStrings(s) ==
  IF s = <<>> THEN <<>>
  ELSE LET least == CHOOSE x \in Range(s) : \A y \in Range(s) : y = x \/ StringLess(x, y)
       IN <<least>> \o SortStrings(SelectSeq(s, LAMBDA y : y # least))

\* ------------------------------------------------------ getImportAlias
\* .replace(/[^a-zA-Z0-9]/g, '_')
ReplaceNonAlphaNumeric(str) ==
  [i \in 1..Len(str) |-> IF IsAlphaNumeric(str[i]) THEN str[i] ELSE "_"]

\* .replace(/^_+/, '')
RECURSIVE StripLeadingUnderscores(_)
StripLeadingUnderscores(str) ==
  IF str # <<>> /\ str[1] = "_" THEN StripLeadingUnderscores(Tail(str)) ELSE str

\* .replace(/_+/g, '_')
RECURSIVE CollapseUnderscores(_)
CollapseUnderscores(str) ==
  IF Len(str) < 2 THEN str
  ELSE IF str[1] = "_" /\ str[2] = "_" THEN CollapseUnderscores(Tail(str))
  ELSE <<str[1]>> \o CollapseUnderscores(Tail(str))

External == <<"e", "x", "t", "e", "r", "n", "a", "l">>

GetImportAlias(moduleSpecifier) ==
  LET alias == CollapseUnderscores(StripLeadingUnderscores(ReplaceNonAlphaNumeric(moduleSpecifier)))
  IN IF alias = <<>> THEN External ELSE alias

\* ------------------------------------------------- declaration files
\* A path is the sequence of its characters, with the file name index and the
\* extension .d.ts each written as one element. A declaration file is the
\* sequence of its top-level statements.
IndexDts == <<"/", "index", ".d.ts">>

\* A Map, in insertion order.
MapHas(m, key) == \E i \in 1..Len(m) : m[i].key = key

MapGet(m, key) == m[CHOOSE i \in 1..Len(m) : m[i].key = key].value

MapSet(m, key, value) ==
  IF MapHas(m, key)
  THEN [i \in 1..Len(m) |-> IF m[i].key = key THEN [key |-> key, value |-> value] ELSE m[i]]
  ELSE Append(m, [key |-> key, value |-> value])

MapKeyList(m) == [i \in 1..Len(m) |-> m[i].key]

RECURSIVE SetAddAll(_, _)
SetAddAll(s, xs) == IF xs = <<>> THEN s ELSE SetAddAll(SetAdd(s, Head(xs)), Tail(xs))

\* if (!imported.has(spec)) imported.set(spec, new Set()); then the adds.
MapAddAll(m, key, xs) ==
  MapSet(m, key, SetAddAll(IF MapHas(m, key) THEN MapGet(m, key) ELSE <<>>, xs))

\* The statements and type nodes of a declaration file.
Statement(kind, clause, spec, names, exported, members) ==
  [kind |-> kind, clause |-> clause, spec |-> spec, names |-> names,
   exported |-> exported, members |-> members]

\* import { names } from 'spec';
ImportNamed(spec, names) == Statement("import", "named", spec, names, FALSE, <<>>)

\* import * as name from 'spec';
ImportNamespace(spec, name) == Statement("import", "namespace", spec, <<name>>, FALSE, <<>>)

\* export { names } from 'spec';    export { names };  (spec = '')
ExportNamed(spec, names) == Statement("export", "named", spec, names, FALSE, <<>>)

\* export * from 'spec';
ExportStar(spec) == Statement("export", "star", spec, <<>>, FALSE, <<>>)

\* [export] interface name { m: members[1]; ... }
Interface(name, exported, members) ==
  Statement("interface", "none", <<>>, <<name>>, exported, members)

\* import("argument").qualifier
ImportType(argument, qualifier) ==
  [node |-> "importType", argument |-> argument, left |-> <<>>, qualifier |-> qualifier]

\* left.qualifier, or the bare qualifier when left is ''
TypeReference(left, qualifier) ==
  [node |-> "typeReference", argument |-> <<>>, left |-> left, qualifier |-> qualifier]

\* sourceFileCache.has(name) and getSourceFile(name), over the program's files.
HasFile(F, name) == \E i \in 1..Len(F) : F[i].fileName = name

GetSourceFile(F, name) == F[CHOOSE i \in 1..Len(F) : F[i].fileName = name].statements

EndsWithDts(name) == name # <<>> /\ name[Len(name)] = ".d.ts"

\* path.dirname
Dirname(p) ==
  LET parts == Split(p, "/")
      dir == Join(SubSeq(parts, 1, Len(parts) - 1), "/")
  IN IF Len(parts) = 1 THEN <<".">> ELSE IF dir = <<>> THEN <<"/">> ELSE dir

\* path.resolve(dir, rel) for an absolute dir
Resolve(dir, rel) ==
  LET segs == NormalizeSegments(Split(dir \o <<"/">> \o rel, "/"), 1, <<>>)
  IN <<"/">> \o Join(SelectSeq(segs, LAMBDA s : s # <<".", ".">>), "/")

\* ----------------------------------------- DependencyGraph: resolution
\* The relative branch of resolveSpecifierToFile. Of the extensions and
\* barrel names it tries, only .d.ts and index.d.ts name a declaration file.
ResolveRelative(F, fromFile, spec) ==
  LET base == Resolve(Dirname(fromFile), spec)
  IN IF HasFile(F, base) THEN base
     ELSE IF HasFile(F, base \o <<".d.ts">>) THEN base \o <<".d.ts">>
     ELSE IF HasFile(F, base \o IndexDts) THEN base \o IndexDts
     ELSE Null

\* The nested-alias loop of resolveSpecifierToFile.
RECURSIVE ResolveNestedAlias(_, _, _, _)
ResolveNestedAlias(F, S, spec, i) ==
  IF i > Len(S) THEN Null
  ELSE LET alias == S[i].key
           baseDir == Dirname(S[i].value)
           remaining == SubSeq(spec, Len(alias) + 2, Len(spec))
           candidate == Resolve(baseDir, remaining \o <<".d.ts">>)
           barrelCandidate == Resolve(baseDir, remaining \o IndexDts)
       IN IF ~StartsWith(spec, alias \o <<"/">>) THEN ResolveNestedAlias(F, S, spec, i + 1)
          ELSE IF HasFile(F, candidate) THEN candidate
          ELSE IF HasFile(F, barrelCandidate) THEN barrelCandidate
          ELSE ResolveNestedAlias(F, S, spec, i + 1)

ResolveSpecifierToFile(F, S, fromFile, spec) ==
  IF StartsWith(spec, <<".">>) THEN ResolveRelative(F, fromFile, spec)
  ELSE IF MapHas(S, spec) /\ HasFile(F, MapGet(S, spec)) THEN MapGet(S, spec)
  ELSE ResolveNestedAlias(F, S, spec, 1)

\* resolveSpecifierToEntry(spec, fromFile): N is this.nodes, R entryRoots,
\* S specifierToDts.
ResolveSpecifierToEntry(F, N, R, S, spec, fromFile) ==
  IF ~MapHas(R, fromFile) \/ MapGet(R, fromFile) = <<>> THEN Null
  ELSE IF StartsWith(spec, <<".">>)
  THEN LET entryRoot == MapGet(R, fromFile)
           resolvedFile == ResolveSpecifierToFile(F, S, fromFile, spec)
           found == SelectSeq(N, LAMBDA entry :
                      /\ MapGet(R, entry) # <<>>
                      /\ StartsWith(resolvedFile, MapGet(R, entry))
                      /\ MapGet(R, entry) = entryRoot)
       IN IF resolvedFile = Null \/ found = <<>> THEN Null ELSE found[1]
  ELSE IF MapHas(S, spec) /\ HasFile(F, MapGet(S, spec)) THEN MapGet(S, spec)
  ELSE LET nested == SelectSeq(S, LAMBDA e : StartsWith(spec, e.key \o <<"/">>))
       IN IF nested = <<>> THEN Null ELSE nested[1].value

\* The entryRoots loop of the constructor.
RECURSIVE EntryRoots(_, _, _, _)
EntryRoots(F, eps, i, R) ==
  IF i > Len(eps) THEN R
  ELSE LET file == eps[i].dtsFile
       IN EntryRoots(F, eps, i + 1,
            MapSet(R, file, IF HasFile(F, file) THEN Dirname(file) ELSE file))

\* buildSpecifierMap: the aliases here hold no '*' and no trailing '/', so
\* the cleaned alias is the alias.
RECURSIVE BuildSpecifierMap(_, _, _, _)
BuildSpecifierMap(F, eps, i, S) ==
  IF i > Len(eps) THEN S
  ELSE BuildSpecifierMap(F, eps, i + 1,
         IF eps[i].alias # <<>> /\ HasFile(F, eps[i].dtsFile)
         THEN MapSet(S, eps[i].alias, eps[i].dtsFile)
         ELSE S)

\* findImportsAndExports: the specifiers of the top-level import and export
\* declarations (an import type node is never a child of the source file).
FindImportsAndExports(statements) ==
  LET decls == SelectSeq(statements,
                 LAMBDA st : st.kind \in {"import", "export"} /\ st.spec # <<>>)
  IN [i \in 1..Len(decls) |-> decls[i].spec]

\* The callback of findAllDtsFilesFromEntry, once per specifier.
RECURSIVE PushResolved(_, _, _, _, _, _, _)
PushResolved(F, S, file, specs, i, queue, seen) ==
  IF i > Len(specs) THEN queue
  ELSE LET resolved == ResolveSpecifierToFile(F, S, file, specs[i])
       IN PushResolved(F, S, file, specs, i + 1,
            IF resolved # Null /\ ~Includes(seen, resolved) THEN Append(queue, resolved)
            ELSE queue,
            seen)

\* The while loop of findAllDtsFilesFromEntry.
RECURSIVE WalkFiles(_, _, _, _, _)
WalkFiles(F, S, root, queue, seen) ==
  IF queue = <<>> THEN seen
  ELSE LET file == queue[Len(queue)]
           rest == SubSeq(queue, 1, Len(queue) - 1)
       IN IF \/ Includes(seen, file)
             \/ ~HasFile(F, file)
             \/ ~EndsWithDts(file)
             \/ ~StartsWith(file, root)
          THEN WalkFiles(F, S, root, rest, seen)
          ELSE WalkFiles(F, S, root,
                 PushResolved(F, S, file, FindImportsAndExports(GetSourceFile(F, file)),
                              1, rest, Append(seen, file)),
                 Append(seen, file))

FindAllDtsFilesFromEntry(F, R, S, entry) == WalkFiles(F, S, MapGet(R, entry), <<entry>>, <<>>)

\* The import type nodes below a statement, in the order visit meets them.
ImportTypeNodes(st) ==
  SelectSeq(st.members, LAMBDA m : m.node = "importType" /\ m.argument # <<>>)

RECURSIVE ExtractImportTypes(_, _, _)
ExtractImportTypes(refs, i, imported) ==
  IF i > Len(refs) THEN imported
  ELSE ExtractImportTypes(refs, i + 1,
         MapAddAll(imported, refs[i].argument,
                   IF refs[i].qualifier # <<>> THEN <<refs[i].qualifier>> ELSE <<>>))

\* visit(node) of extractTypesFromSourceFile for one statement and its
\* children; acc holds the imported Map and the exported Set.
ExtractTypesFromStatement(st, acc) ==
  LET declared == IF st.kind \in {"import", "export"} /\ st.spec # <<>>
                  THEN MapAddAll(acc.imported, st.spec, st.names)
                  ELSE acc.imported
  IN [imported |-> ExtractImportTypes(ImportTypeNodes(st), 1, declared),
      exported |-> IF st.kind = "interface" /\ st.exported
                   THEN SetAdd(acc.exported, st.names[1])
                   ELSE acc.exported]

RECURSIVE ExtractTypesFromSourceFile(_, _, _)
ExtractTypesFromSourceFile(statements, i, acc) ==
  IF i > Len(statements) THEN acc
  ELSE ExtractTypesFromSourceFile(statements, i + 1,
                                  ExtractTypesFromStatement(statements[i], acc))

RECURSIVE ExtractTypesFromFiles(_, _, _, _)
ExtractTypesFromFiles(F, allFiles, i, acc) ==
  IF i > Len(allFiles) THEN acc
  ELSE ExtractTypesFromFiles(F, allFiles, i + 1,
         ExtractTypesFromSourceFile(GetSourceFile(F, allFiles[i]), 1, acc))

CollectTypesForEntry(F, R, S, entry) ==
  ExtractTypesFromFiles(F, FindAllDtsFilesFromEntry(F, R, S, entry), 1,
                        [imported |-> <<>>, exported |-> <<>>])

\* for (const entry of this.nodes) this.collectTypesForEntry(entry): the
\* exportedTypes (field "exported") or importedTypes (field "imported") Map.
RECURSIVE CollectTypes(_, _, _, _, _, _, _)
CollectTypes(F, N, R, S, field, i, m) ==
  IF i > Len(N) THEN m
  ELSE CollectTypes(F, N, R, S, field, i + 1,
         MapSet(m, N[i], CollectTypesForEntry(F, R, S, N[i])[field]))

\* The inner loop of buildEdges without the test resolved === entry.
RECURSIVE EntryDepsWithSelf(_, _, _, _, _, _, _, _)
EntryDepsWithSelf(F, N, R, S, entry, specs, i, deps) ==
  IF i > Len(specs) THEN deps
  ELSE LET resolved == ResolveSpecifierToEntry(F, N, R, S, specs[i], entry)
       IN EntryDepsWithSelf(F, N, R, S, entry, specs, i + 1,
            IF resolved = Null THEN deps ELSE SetAdd(deps, resolved))

\* The inner loop of buildEdges.
RECURSIVE EntryDeps(_, _, _, _, _, _, _, _)
EntryDeps(F, N, R, S, entry, specs, i, deps) ==
  IF i > Len(specs) THEN deps
  ELSE LET resolved == ResolveSpecifierToEntry(F, N, R, S, specs[i], entry)
       IN EntryDeps(F, N, R, S, entry, specs, i + 1,
            IF resolved = Null \/ resolved = entry THEN deps ELSE SetAdd(deps, resolved))

\* buildEdges, as the function this.edges.get.
BuildEdges(F, N, R, S, imports) ==
  [entry \in Range(N) |->
     EntryDeps(F, N, R, S, entry, MapKeyList(MapGet(imports, entry)), 1, <<>>)]

\* --------------------------------------------------------- DTSBundler
\* The field initialisers of a DTSBundler: every instance starts from empty
\* collections, whatever the instance before it (previous) held.
InstanceFieldsShared(previous) == previous

InstanceFields(previous) ==
  [exportedSymbols |-> <<>>, typeReferences |-> <<>>,
   processedFiles |-> <<>>, externalImports |-> <<>>]

\* A constructor that takes over the external imports the instance before it
\* has collected.
NewInstanceReusingImports(entryPoint, previous) ==
  [entryPoint |-> entryPoint, baseDir |-> Dirname(entryPoint), threw |-> FALSE,
   fields |-> [InstanceFields(previous) EXCEPT !.externalImports = previous.externalImports]]

\* new DTSBundler(options, graph): baseDir = path.dirname(entryPoint).
NewInstance(entryPoint, previous) ==
  [entryPoint |-> entryPoint, baseDir |-> Dirname(entryPoint), threw |-> FALSE,
   fields |-> InstanceFields(previous)]

IsSamePackage(moduleSpecifier) ==
  \/ StartsWith(moduleSpecifier, <<".", "/">>)
  \/ StartsWith(moduleSpecifier, <<".", ".", "/">>)
  \/ moduleSpecifier = <<".">>
  \/ moduleSpecifier = <<".", ".">>

\* shouldProcessFile: no path here holds node_modules or typescript/lib.
ShouldProcessFile(b, fileName) == EndsWithDts(fileName) /\ StartsWith(fileName, b.baseDir)

\* collectTypeReferences over the import type nodes of one statement.
RECURSIVE CollectTypeReferences(_, _, _)
CollectTypeReferences(refs, i, fields) ==
  IF i > Len(refs) THEN fields
  ELSE LET ref == refs[i]
           isExternal == ~IsSamePackage(ref.argument)
       IN CollectTypeReferences(refs, i + 1,
            IF ref.qualifier = <<>> THEN fields
            ELSE [fields EXCEPT
                    !.typeReferences =
                       MapSet(@, ref.qualifier,
                              [moduleSpecifier |-> ref.argument, typeName |-> ref.qualifier,
                               declaration |-> FALSE, isExternal |-> isExternal]),
                    !.externalImports =
                       IF isExternal THEN SetAdd(@, ref.argument) ELSE @])

\* processExportDeclaration: the names are added, an external source is
\* recorded, and a same-package source reads modulePath before its
\* declaration, which throws a ReferenceError.
ProcessExportDeclaration(st, b) ==
  IF st.clause # "named" THEN b
  ELSE LET added == [b EXCEPT !.fields.exportedSymbols = SetAddAll(@, st.names)]
       IN IF st.spec = <<>> THEN added
          ELSE IF ~IsSamePackage(st.spec)
          THEN [added EXCEPT !.fields.externalImports = SetAdd(@, st.spec)]
          ELSE [added EXCEPT !.threw = TRUE]

\* The callback of processFileForExportsAndReferences for one statement.
ProcessStatement(st, b) ==
  LET collected == IF st.kind = "export" THEN ProcessExportDeclaration(st, b)
                   ELSE IF st.exported
                   THEN [b EXCEPT !.fields.exportedSymbols = SetAddAll(@, st.names)]
                   ELSE b
  IN IF collected.threw THEN collected
     ELSE [collected EXCEPT !.fields = CollectTypeReferences(ImportTypeNodes(st), 1, @)]

RECURSIVE ProcessFileForExportsAndReferences(_, _, _)
ProcessFileForExportsAndReferences(statements, i, b) ==
  IF i > Len(statements) \/ b.threw THEN b
  ELSE ProcessFileForExportsAndReferences(statements, i + 1, ProcessStatement(statements[i], b))

\* collectExportsAndReferences: every file of the program is a root file.
RECURSIVE CollectExportsAndReferences(_, _, _)
CollectExportsAndReferences(F, i, b) ==
  IF i > Len(F) \/ b.threw THEN b
  ELSE CollectExportsAndReferences(F, i + 1,
         IF ShouldProcessFile(b, F[i].fileName)
         THEN ProcessFileForExportsAndReferences(F[i].statements, 1,
                [b EXCEPT !.fields.processedFiles = SetAdd(@, F[i].fileName)])
         ELSE b)

\* resolveTypeReferences: only a reference that carries a declaration adds
\* its name.
RECURSIVE ResolveTypeReferences(_, _)
ResolveTypeReferences(b, i) ==
  IF i > Len(b.fields.typeReferences) THEN b
  ELSE LET ref == b.fields.typeReferences[i].value
       IN ResolveTypeReferences(
            IF ref.declaration /\ ~ref.isExternal
            THEN [b EXCEPT !.fields.exportedSymbols = SetAdd(@, ref.typeName)]
            ELSE b,
            i + 1)

\* A line of the bundle is the sequence of its tokens.
Keyword(word) == <<word>>

EmptyLine == <<>>

NewLine == <<"\n">>

ImportTypeLine(alias, importPath) ==
  <<Keyword("import type * as"), alias, Keyword("from"), importPath>>

ImportNamedLine(syms, specifier) ==
  <<Keyword("import {")>> \o syms \o <<Keyword("} from"), specifier>>

ImportStarLine(alias, specifier) ==
  <<Keyword("import * as"), alias, Keyword("from"), specifier>>

\* The import type lines at the top of generateBundle.
ExternalImportLines(b) ==
  LET sorted == SortStrings(b.fields.externalImports)
  IN IF sorted = <<>> THEN <<>>
     ELSE [i \in 1..Len(sorted) |-> ImportTypeLine(GetImportAlias(sorted[i]), sorted[i])]
          \o <<EmptyLine>>

\* The loop of generateBundle that fills interImports.
RECURSIVE InterImports(_, _, _, _, _, _, _, _, _)
InterImports(F, N, R, S, entryPoint, declaredSymbols, imports, i, acc) ==
  IF i > Len(imports) THEN acc
  ELSE LET specifier == imports[i].key
           resolvedEntry == ResolveSpecifierToEntry(F, N, R, S, specifier, entryPoint)
           syms == SelectSeq(imports[i].value, LAMBDA sym : ~Includes(declaredSymbols, sym))
       IN InterImports(F, N, R, S, entryPoint, declaredSymbols, imports, i + 1,
            IF resolvedEntry = entryPoint \/ syms = <<>> THEN acc
            ELSE MapAddAll(acc, specifier, syms))

\* The inter-package import lines of generateBundle.
InterImportLines(interImports) ==
  LET keys == SortStrings(MapKeyList(interImports))
  IN IF keys = <<>> THEN <<>>
     ELSE [i \in 1..Len(keys) |->
             LET syms == SortStrings(MapGet(interImports, keys[i]))
             IN IF syms # <<>> THEN ImportNamedLine(syms, keys[i])
                ELSE ImportStarLine(GetImportAlias(keys[i]), keys[i])]
          \o <<EmptyLine>>

\* visit of the transformer on one type node.
TransformType(m, typeReferences) ==
  IF m.node = "importType" /\ m.qualifier # <<>>
  THEN IF MapHas(typeReferences, m.qualifier) /\ MapGet(typeReferences, m.qualifier).isExternal
       THEN TypeReference(GetImportAlias(MapGet(typeReferences, m.qualifier).moduleSpecifier),
                          m.qualifier)
       ELSE TypeReference(<<>>, m.qualifier)
  ELSE m

Transform(st, typeReferences) ==
  [st EXCEPT !.members = [i \in 1..Len(st.members) |-> TransformType(st.members[i], typeReferences)]]

\* printer.printNode for a type node and for a statement.
PrintType(m) ==
  IF m.node = "importType" THEN <<Keyword("import("), m.argument, Keyword(")."), m.qualifier>>
  ELSE IF m.left = <<>> THEN <<m.qualifier>>
  ELSE <<m.left \o <<".">> \o m.qualifier>>

RECURSIVE PrintMembers(_)
PrintMembers(members) ==
  IF members = <<>> THEN <<>>
  ELSE PrintType(Head(members)) \o <<Keyword(";")>> \o PrintMembers(Tail(members))

PrintStatement(st) ==
  IF st.kind = "interface"
  THEN (IF st.exported THEN <<Keyword("export")>> ELSE <<>>)
       \o <<Keyword("interface"), st.names[1], Keyword("{")>>
       \o PrintMembers(st.members) \o <<Keyword("}")>>
  ELSE IF st.kind = "export" /\ st.clause = "star"
  THEN <<Keyword("export * from"), st.spec>>
  ELSE IF st.kind = "export"
  THEN <<Keyword("export {")>> \o st.names
       \o (IF st.spec = <<>> THEN <<Keyword("};")>> ELSE <<Keyword("} from"), st.spec>>)
  ELSE IF st.clause = "namespace"
  THEN ImportStarLine(st.names[1], st.spec)
  ELSE ImportNamedLine(st.names, st.spec)

\* The statement loop of generateBundle for one source file: the lines it
\* pushes.
RECURSIVE StatementLines(_, _, _)
StatementLines(statements, i, typeReferences) ==
  IF i > Len(statements) THEN <<>>
  ELSE LET st == Transform(statements[i], typeReferences)
           removeFrom == st.kind = "export" /\ st.clause = "named" /\ IsSamePackage(st.spec)
           statementText == PrintStatement(IF removeFrom THEN [st EXCEPT !.spec = <<>>] ELSE st)
           skip == \/ st.kind = "import"
                   \/ st.kind = "export" /\ st.clause = "star" /\ IsSamePackage(st.spec)
       IN (IF skip THEN <<>> ELSE <<statementText, EmptyLine>>)
          \o StatementLines(statements, i + 1, typeReferences)

RECURSIVE FileLines(_, _, _)
FileLines(F, i, b) ==
  IF i > Len(F) THEN <<>>
  ELSE LET pushed == StatementLines(F[i].statements, 1, b.fields.typeReferences)
       IN (IF ~ShouldProcessFile(b, F[i].fileName) THEN <<>>
           ELSE IF pushed = <<>> THEN <<>>
           ELSE pushed \o <<EmptyLine>>)
          \o FileLines(F, i + 1, b)

\* generateBundle(): options.banner is not set. X holds exportedTypes, I
\* importedTypes.
GenerateBundle(F, N, R, S, X, I, b) ==
  LET declaredSymbols == IF MapHas(X, b.entryPoint) THEN MapGet(X, b.entryPoint) ELSE <<>>
      imports == IF MapHas(I, b.entryPoint) THEN MapGet(I, b.entryPoint) ELSE <<>>
      interImports == InterImports(F, N, R, S, b.entryPoint, declaredSymbols, imports, 1, <<>>)
      result == ExternalImportLines(b) \o InterImportLines(interImports) \o FileLines(F, 1, b)
  IN Join(result, NewLine)

\* text.split('\n')
Lines(text) == Split(text, NewLine)

\* ------------------------------------------ the bundler specification
\* The packages of the monorepo: an alias of compilerOptions.paths and the
\* directory its index.d.ts is emitted to. /d/a is a sibling of /d/ab and a
\* child of /d.
PkgA == [alias |-> <<"@", "p", "/", "a">>, dir |-> <<"/", "d", "/", "a">>]

PkgAB == [alias |-> <<"@", "p", "/", "a", "b">>, dir |-> <<"/", "d", "/", "a", "b">>]

PkgRoot == [alias |-> <<"@", "p">>, dir |-> <<"/", "d">>]

Packages == {PkgA, PkgAB, PkgRoot}

\* Three packages that are no entry point of the run.
X1 == <<"x", "-", "1">>

X2 == <<"x", "_", "2">>

X3 == <<"x", "_", "1">>

Foo == <<"F", "o", "o">>

NameG == <<"G">>

NameT == <<"T">>

NameU == <<"U">>

NameY == <<"Y">>

NameZ == <<"Z">>

NameN == <<"n">>

SpecZ == <<".", "/", "s", "/", "z">>

SpecY == <<".", ".", "/", "y">>

\* What the index file of an entry holds; other is the alias of another
\* entry point, or an external package when there is no other entry.
IndexMenu(other) ==
  { <<Interface(Foo, TRUE, <<>>)>>,
    <<ImportNamed(other, <<Foo>>), ExportNamed(<<>>, <<Foo>>)>>,
    <<ExportNamed(other, <<Foo>>)>>,
    <<ExportStar(other)>>,
    <<Interface(NameG, TRUE, <<ImportType(X1, NameT), ImportType(X2, NameT)>>)>>,
    <<Interface(NameG, TRUE, <<ImportType(X1, NameT), ImportType(X2, NameU)>>)>>,
    <<Interface(NameG, TRUE, <<ImportType(SpecY, NameY), ImportType(X1, NameU)>>)>>,
    <<Interface(NameG, TRUE, <<ImportType(X1, NameT), ImportType(X3, NameU)>>)>> }

\* The files an entry has below its index file, and the statement of the
\* index file that reaches them.
InnerMenu == {"none", "named", "namespace", "reexport"}

InnerLink(inner) ==
  IF inner = "none" THEN <<>>
  ELSE IF inner = "reexport" THEN <<ExportNamed(SpecZ, <<NameZ>>)>>
  ELSE <<ExportStar(SpecZ)>>

InnerFiles(dir, inner) ==
  LET y == [fileName |-> dir \o <<"/", "y", ".d.ts">>,
            statements |-> <<Interface(NameY, TRUE, <<>>)>>]
      z == dir \o <<"/", "s", "/", "z", ".d.ts">>
  IN IF inner = "none" THEN <<>>
     ELSE IF inner = "reexport"
     THEN <<[fileName |-> z, statements |-> <<Interface(NameZ, TRUE, <<>>)>>]>>
     ELSE IF inner = "named"
     THEN <<y, [fileName |-> z,
                statements |-> <<ImportNamed(SpecY, <<NameY>>),
                                 Interface(NameZ, TRUE, <<TypeReference(<<>>, NameY)>>)>>]>>
     ELSE <<y, [fileName |-> z,
                statements |-> <<ImportNamespace(SpecY, NameN),
                                 Interface(NameZ, TRUE, <<>>)>>]>>

\* The files emitted for one entry, in the program's order: a file comes
\* after the files it imports.
EntryFiles(pkg, index, inner) ==
  InnerFiles(pkg.dir, inner)
  \o <<[fileName |-> pkg.dir \o IndexDts, statements |-> index \o InnerLink(inner)]>>

RECURSIVE ProgramFiles(_, _, _, _)
ProgramFiles(pkgs, indexes, inners, i) ==
  IF i > Len(pkgs) THEN <<>>
  ELSE EntryFiles(pkgs[i], indexes[i], inners[i]) \o ProgramFiles(pkgs, indexes, inners, i + 1)

\* The alias the i-th of the entries imports from.
OtherAlias(pkgs, i) == IF Len(pkgs) = 1 THEN X1 ELSE pkgs[(i % Len(pkgs)) + 1].alias

BundleInit ==
  /\ \E pkgs \in UNION {[1..j -> Packages] : j \in 1..MaxBundleEntries} :
       /\ NoDup(pkgs)
       /\ \E indexes \in [1..Len(pkgs) -> UNION {IndexMenu(OtherAlias(pkgs, i)) : i \in 1..Len(pkgs)}],
             inners \in [1..Len(pkgs) -> InnerMenu] :
            /\ \A i \in 1..Len(pkgs) : indexes[i] \in IndexMenu(OtherAlias(pkgs, i))
            /\ dtsEntryPoints = [i \in 1..Len(pkgs) |->
                                   [alias |-> pkgs[i].alias, dtsFile |-> pkgs[i].dir \o IndexDts]]
            /\ files = ProgramFiles(pkgs, indexes, inners, 1)
  /\ specifierToDts = <<>> /\ entryRoots = <<>>
  /\ exportedTypes = <<>> /\ importedTypes = <<>>
  /\ bundler = NoInstance /\ outputs = <<>> /\ bpc = "files"
  /\ nodes = <<>> /\ edges = <<>> /\ cycles = <<>> /\ order = <<>> /\ gpc = "new"
  /\ HierIdle
  /\ RunIdle

\* new DependencyGraph(files, entryPoints, compilerOptions)
Constructor ==
  /\ bpc = "files"
  /\ gpc = "new"
  /\ LET N == [i \in 1..Len(dtsEntryPoints) |-> dtsEntryPoints[i].dtsFile]
         R == EntryRoots(files, dtsEntryPoints, 1, <<>>)
         S == BuildSpecifierMap(files, dtsEntryPoints, 1, <<>>)
         I == CollectTypes(files, N, R, S, "imported", 1, <<>>)
         E == BuildEdges(files, N, R, S, I)
     IN /\ nodes' = N
        /\ entryRoots' = R
        /\ specifierToDts' = S
        /\ exportedTypes' = CollectTypes(files, N, R, S, "exported", 1, <<>>)
        /\ importedTypes' = I
        /\ edges' = E
        /\ cycles' = DetectCycles(N, E)
  /\ gpc' = "built"
  /\ bpc' = "ready"
  /\ UNCHANGED <<order, files, dtsEntryPoints, bundler, outputs>>
  /\ UNCHANGED <<hierVars, runVars>>

\* new DTSBundler({ entryPoint, ... }, graph) for one of the sorted entries
NewDTSBundler ==
  /\ bpc = "ready"
  /\ gpc = "sorted"
  /\ Len(outputs) < MaxBundles
  /\ \E i \in 1..Len(order) : bundler' = NewInstance(order[i], bundler.fields)
  /\ bpc' = "created"
  /\ UNCHANGED <<files, dtsEntryPoints, specifierToDts, entryRoots, exportedTypes,
                 importedTypes, outputs>>
  /\ UNCHANGED <<graphVars, hierVars, runVars>>

\* The instance after the two passes of bundle().
Collected == ResolveTypeReferences(CollectExportsAndReferences(files, 1, bundler), 1)

\* bundle(), when the collect pass throws: nothing is generated.
BundleThrowsInCollect ==
  /\ bpc = "created"
  /\ Collected.threw
  /\ bundler' = Collected
  /\ outputs' = Append(outputs, [entryPoint |-> bundler.entryPoint, threw |-> TRUE,
                                 text |-> <<>>])
  /\ bpc' = "ready"
  /\ UNCHANGED <<files, dtsEntryPoints, specifierToDts, entryRoots, exportedTypes,
                 importedTypes>>
  /\ UNCHANGED <<graphVars, hierVars, runVars>>

\* bundle(), up to the text handed to writeFile.
BundleGenerates ==
  /\ bpc = "created"
  /\ ~Collected.threw
  /\ bundler' = Collected
  /\ outputs' = Append(outputs,
                  [entryPoint |-> bundler.entryPoint, threw |-> FALSE,
                   text |-> GenerateBundle(files, nodes, entryRoots, specifierToDts,
                                           exportedTypes, importedTypes, Collected)])
  /\ bpc' = "ready"
  /\ UNCHANGED <<files, dtsEntryPoints, specifierToDts, entryRoots, exportedTypes,
                 importedTypes>>
  /\ UNCHANGED <<graphVars, hierVars, runVars>>

BundleNext ==
  \/ Constructor
  \/ CallTopoSort
  \/ NewDTSBundler
  \/ BundleThrowsInCollect
  \/ BundleGenerates

\* --------------------------------------------- properties of a bundle
EntryFile(i) == dtsEntryPoints[i].dtsFile

EntryIndexes == 1..Len(dtsEntryPoints)

\* file lies in the directory dir or below it.
IsUnder(file, dir) == StartsWith(file, dir \o <<"/">>)

\* The files of the i-th entry's package: those in its directory that are
\* not in the directory of an entry nested in it.
OwnFiles(i) ==
  {k \in 1..Len(files) :
     /\ IsUnder(files[k].fileName, Dirname(EntryFile(i)))
     /\ \A j \in EntryIndexes :
          IsUnder(files[k].fileName, Dirname(EntryFile(j)))
            => Len(Dirname(EntryFile(j))) <= Len(Dirname(EntryFile(i)))}

\* Every module specifier written in a file.
SpecifiersOf(statements) ==
  {statements[s].spec : s \in {t \in 1..Len(statements) : statements[t].spec # <<>>}}
  \cup UNION {{ImportTypeNodes(statements[s])[m].argument :
                 m \in 1..Len(ImportTypeNodes(statements[s]))} : s \in 1..Len(statements)}

\* spec, written in the k-th file, names a file of the i-th entry's package:
\* a relative specifier is resolved from the file it is written in.
RefersInside(i, k, spec) ==
  LET target == IF StartsWith(spec, <<".">>) THEN ResolveRelative(files, files[k].fileName, spec)
                ELSE IF spec = dtsEntryPoints[i].alias THEN EntryFile(i)
                ELSE Null
  IN \E k2 \in OwnFiles(i) : files[k2].fileName = target

IntraPackageOnly(i) ==
  \A k \in OwnFiles(i) : \A spec \in SpecifiersOf(files[k].statements) : RefersInside(i, k, spec)

\* The import lines of a bundle for a specifier.
ImportLinesFor(text, spec) ==
  {l \in Range(Lines(text)) :
     /\ Len(l) >= 2
     /\ l[1] \in {Keyword("import type * as"), Keyword("import {"), Keyword("import * as")}
     /\ l[Len(l)] = spec}

\* A line that declares the interface name.
DeclaresInterface(l, name) ==
  \E t \in 1..(Len(l) - 1) : l[t] = Keyword("interface") /\ l[t + 1] = name

\* The scenario: two entries, a declaring the exported interface Foo and b
\* importing Foo from a's alias and re-exporting it.
C4_Scenario(a, b) ==
  /\ Len(dtsEntryPoints) = 2 /\ a # b
  /\ GetSourceFile(files, EntryFile(a)) = <<Interface(Foo, TRUE, <<>>)>>
  /\ GetSourceFile(files, EntryFile(b)) \in
       { <<ImportNamed(dtsEntryPoints[a].alias, <<Foo>>), ExportNamed(<<>>, <<Foo>>)>>,
         <<ExportNamed(dtsEntryPoints[a].alias, <<Foo>>)>> }

\* C4 (as claimed): in the scenario with A declaring Foo and B re-exporting
\* it from A's alias, the only edge is B -> A, there is no cycle, the order is
\* [A, B] whichever is listed first, and every bundle of B holds
\* import { Foo } from '<A>' and no declaration of Foo.
C4_ImportNotInline ==
  \A a, b \in EntryIndexes :
    C4_Scenario(a, b) =>
      /\ gpc \in {"built", "sorted"} =>
           /\ edges[EntryFile(b)] = <<EntryFile(a)>>
           /\ edges[EntryFile(a)] = <<>>
           /\ cycles = <<>>
      /\ gpc = "sorted" => order = <<EntryFile(a), EntryFile(b)>>
      /\ \A o \in 1..Len(outputs) :
           outputs[o].entryPoint = EntryFile(b) =>
             /\ ~outputs[o].threw
             /\ ImportNamedLine(<<Foo>>, dtsEntryPoints[a].alias) \in Range(Lines(outputs[o].text))
             /\ \A l \in Range(Lines(outputs[o].text)) : ~DeclaresInterface(l, Foo)

\* C5 (as claimed): when every specifier in the files of an entry names a
\* file of that entry's own package, the bundle of the entry holds no import
\* line for any of these specifiers.
C5_NoSelfImport ==
  \A o \in 1..Len(outputs) : \A i \in EntryIndexes :
    (outputs[o].entryPoint = EntryFile(i) /\ ~outputs[o].threw /\ IntraPackageOnly(i)) =>
      \A k \in OwnFiles(i) : \A spec \in SpecifiersOf(files[k].statements) :
        ImportLinesFor(outputs[o].text, spec) = {}

\* C6: two bundles of one entry against the same graph and files are the
\* same text (and fail alike).
C6_SameEntrySameText ==
  \A o, p \in 1..Len(outputs) :
    outputs[o].entryPoint = outputs[p].entryPoint =>
      outputs[o].threw = outputs[p].threw /\ outputs[o].text = outputs[p].text

\* An entry was bundled, then another one whose bundle imports a package
\* that the first does not, then the first again.
C6_Witness ==
  /\ Len(outputs) = 3
  /\ outputs[1].entryPoint = outputs[3].entryPoint
  /\ outputs[1].entryPoint # outputs[2].entryPoint
  /\ \A o \in 1..3 : ~outputs[o].threw
  /\ ImportLinesFor(outputs[1].text, X2) # {}
  /\ ImportLinesFor(outputs[2].text, X2) = {}
  /\ \E i \in EntryIndexes : ImportLinesFor(outputs[2].text, dtsEntryPoints[i].alias) # {}

\* The alias as the specification words it: every run of non-alphanumeric
\* characters becomes one underscore, leading underscores go, and the empty
\* result is `external`.
RECURSIVE RunsToUnderscore(_, _)
RunsToUnderscore(str, inRun) ==
  IF str = <<>> THEN <<>>
  ELSE IF IsAlphaNumeric(str[1]) THEN <<str[1]>> \o RunsToUnderscore(Tail(str), FALSE)
  ELSE IF inRun THEN RunsToUnderscore(Tail(str), TRUE)
  ELSE <<"_">> \o RunsToUnderscore(Tail(str), TRUE)

ClaimedAlias(spec) ==
  LET runs == RunsToUnderscore(spec, FALSE)
      stripped == IF runs # <<>> /\ runs[1] = "_" THEN Tail(runs) ELSE runs
  IN IF stripped = <<>> THEN External ELSE stripped

\* The specifiers the alias function is compared on.
SpecifierSamples ==
  UNION {[1..j -> {"a", "1", "-", "_", "/"}] : j \in 0..MaxSpecifierLength}
  \cup {X1, X2, PkgA.alias, PkgAB.alias, PkgRoot.alias, SpecY, SpecZ,
        <<"@", "f", "o", "o", "/", "b", "a", "r", "-", "b", "a", "z">>}

\* getImportAlias is the function the specification describes, and gives
\* foo_bar_baz for @foo/bar-baz.
AliasIsAsClaimed ==
  /\ \A spec \in SpecifierSamples : GetImportAlias(spec) = ClaimedAlias(spec)
  /\ GetImportAlias(<<"@", "f", "o", "o", "/", "b", "a", "r", "-", "b", "a", "z">>)
       = <<"f", "o", "o", "_", "b", "a", "r", "_", "b", "a", "z">>

\* The statement as the specification expects it in the bundle: every
\* import type reference qualified by the alias of its own specifier.
ExpectedType(m) ==
  IF m.node = "importType" /\ m.qualifier # <<>>
  THEN TypeReference(IF IsSamePackage(m.argument) THEN <<>> ELSE GetImportAlias(m.argument),
                     m.qualifier)
  ELSE m

ExpectedStatement(st) ==
  [st EXCEPT !.members = [i \in 1..Len(st.members) |-> ExpectedType(st.members[i])]]

ExternalReferences(st) == SelectSeq(ImportTypeNodes(st), LAMBDA m : ~IsSamePackage(m.argument))

\* C7 (as claimed): getImportAlias is the function the specification
\* describes, and in every bundle each reference import("S").T with an
\* external S reads <alias(S)>.T, with alias(S) the alias of the
\* import type * as line for S.
C7_OneAliasPerSpecifier ==
  /\ AliasIsAsClaimed
  /\ \A o \in 1..Len(outputs) :
       ~outputs[o].threw =>
         \A k \in 1..Len(files) :
           (EndsWithDts(files[k].fileName)
              /\ StartsWith(files[k].fileName, Dirname(outputs[o].entryPoint))) =>
             \A s \in 1..Len(files[k].statements) :
               LET st == files[k].statements[s]
                   refs == ExternalReferences(st)
               IN refs # <<>> =>
                    /\ PrintStatement(ExpectedStatement(st)) \in Range(Lines(outputs[o].text))
                    /\ \A r \in 1..Len(refs) :
                         ImportTypeLine(GetImportAlias(refs[r].argument), refs[r].argument)
                           \in Range(Lines(outputs[o].text))

\* ------------------------------------- bundles and the order of bundling
\* What bundle() gives for an entry when no other bundler ran before it.
AloneBundle(entry) ==
  LET b == ResolveTypeReferences(
             CollectExportsAndReferences(files, 1,
               [entryPoint |-> entry, baseDir |-> Dirname(entry), threw |-> FALSE,
                fields |-> [exportedSymbols |-> <<>>, typeReferences |-> <<>>,
                            processedFiles |-> <<>>, externalImports |-> <<>>]]), 1)
  IN [entryPoint |-> entry, threw |-> b.threw,
      text |-> IF b.threw THEN <<>>
               ELSE GenerateBundle(files, nodes, entryRoots, specifierToDts,
                                   exportedTypes, importedTypes, b)]

\* The graph after construction, as the bundlers read it.
FrozenGraph == <<nodes, edges, cycles, specifierToDts, entryRoots, exportedTypes,
                 importedTypes, files>>

\* C12: whatever was bundled before and in whatever order, the bundle of an
\* entry is the bundle a first bundler makes of it, and no step after the
\* construction of the graph changes the nodes, edges, cycles, specifier map
\* or symbol maps.
C12_OrderIndependent ==
  /\ [](\A o \in 1..Len(outputs) : outputs[o] = AloneBundle(outputs[o].entryPoint))
  /\ [][bpc # "files" => FrozenGraph' = FrozenGraph]_<<graphVars, hierVars, runVars, bundleVars>>

\* Two dependent entries were bundled against topoSort()'s order, the
\* dependent one first, and gave different texts.
C12_Witness ==
  /\ Len(order) = 2 /\ Len(outputs) >= 2
  /\ edges[order[2]] = <<order[1]>>
  /\ outputs[1].entryPoint = order[2] /\ outputs[2].entryPoint = order[1]
  /\ ~outputs[1].threw /\ ~outputs[2].threw
  /\ outputs[1].text # outputs[2].text

\* ------------------------------------------ the file set of an entry
\* The declaration files in directory root that a file of set names by a
\* relative or alias specifier.
ReachedInside(root, set) ==
  {r \in UNION {{ResolveSpecifierToFile(files, specifierToDts, g, spec) :
                   spec \in Range(FindImportsAndExports(GetSourceFile(files, g)))} : g \in set} :
     r # Null /\ HasFile(files, r) /\ EndsWithDts(r) /\ IsUnder(r, root)}

\* The files reachable from the files of set without leaving root.
RECURSIVE ReachableInside(_, _)
ReachableInside(root, set) ==
  LET next == set \cup ReachedInside(root, set)
  IN IF next = set THEN set ELSE ReachableInside(root, next)

\* C15 (as claimed): findAllDtsFilesFromEntry returns no file twice, returns
\* exactly the declaration files reachable from the entry's file through
\* files in the entry's own directory, and returns no file outside of it.
C15_ReachableInsideRoot ==
  gpc \in {"built", "sorted"} =>
    \A i \in EntryIndexes :
       LET found == FindAllDtsFilesFromEntry(files, entryRoots, specifierToDts, EntryFile(i))
           root == Dirname(EntryFile(i))
       IN /\ NoDup(found)
          /\ Range(found) = ReachableInside(root, {EntryFile(i)})
          /\ \A f \in Range(found) : IsUnder(f, root)

\* ------------------------------------ the files a bundler works over
\* The interface statements named name in the files of set, as pairs
\* <<file index, statement index>>.
InterfacesIn(set, name) ==
  {ks \in (1..Len(files)) \X (1..MaxStatements) :
     /\ files[ks[1]].fileName \in set
     /\ ks[2] <= Len(files[ks[1]].statements)
     /\ files[ks[1]].statements[ks[2]].kind = "interface"
     /\ files[ks[1]].statements[ks[2]].names[1] = name}

\* The lines of text that declare the interface name.
DeclaringLines(text, name) ==
  {l \in 1..Len(Lines(text)) : DeclaresInterface(Lines(text)[l], name)}

\* C16 (as claimed): the files a bundler has collected from, and the files
\* whose declarations are in its text, are the files findAllDtsFilesFromEntry
\* gives for its entry.
C16_BundlerFilesAreGraphFiles ==
  (bpc = "ready" /\ bundler.entryPoint # Null /\ ~bundler.threw) =>
    LET found == Range(FindAllDtsFilesFromEntry(files, entryRoots, specifierToDts,
                                                bundler.entryPoint))
        text == outputs[Len(outputs)].text
    IN /\ Range(bundler.fields.processedFiles) = found
       /\ \A name \in {Foo, NameG, NameY, NameZ} :
            Cardinality(DeclaringLines(text, name)) = Cardinality(InterfacesIn(found, name))

\* ------------------------------------------------ the edges of the graph
\* The specifiers written in the files findAllDtsFilesFromEntry gives for
\* the entry X.
CollectedSpecifiers(X) ==
  UNION {SpecifiersOf(GetSourceFile(files, f)) :
           f \in Range(FindAllDtsFilesFromEntry(files, entryRoots, specifierToDts, X))}

\* C17: after construction no entry depends on itself, every dependency is a
\* node, listed once, and every edge X -> Y comes from a specifier of X's
\* files that resolves to the entry Y, a relative one only when Y has the
\* package root of X.
C17_EdgesFromSpecifiers ==
  (bpc # "files" /\ bpc # "idle") =>
    \A X \in Range(nodes) :
       /\ NoDup(edges[X])
       /\ \A Y \in Range(edges[X]) :
            /\ Y # X
            /\ Y \in Range(nodes)
            /\ \E spec \in CollectedSpecifiers(X) :
                  /\ ResolveSpecifierToEntry(files, nodes, entryRoots, specifierToDts, spec, X) = Y
                  /\ StartsWith(spec, <<".">>) => MapGet(entryRoots, Y) = MapGet(entryRoots, X)

\* A graph with an edge whose source entry also holds relative specifiers
\* and a specifier of no entry.
C17_Witness ==
  /\ bpc = "ready"
  /\ \E X \in Range(nodes) :
        /\ edges[X] # <<>>
        /\ \E spec \in CollectedSpecifiers(X) : StartsWith(spec, <<".">>)
        /\ \E spec \in CollectedSpecifiers(X) :
              ResolveSpecifierToEntry(files, nodes, entryRoots, specifierToDts, spec, X) = Null

\* ------------------------------------------- the inter-entry imports
\* The import statements of a bundle that are no import type line, in the
\* order of the text.
InterImportStatements(text) ==
  SelectSeq(Lines(text),
            LAMBDA l : Len(l) >= 2 /\ l[1] \in {Keyword("import {"), Keyword("import * as")})

\* The specifier of an import line, and the names between its braces.
LineSpecifier(l) == l[Len(l)]

LineNames(l) == IF l[1] = Keyword("import {") THEN SubSeq(l, 2, Len(l) - 2) ELSE <<>>

\* The names the graph has recorded as imported through spec by entry and
\* that entry does not declare.
UndeclaredImports(entry, spec) ==
  LET imports == MapGet(importedTypes, entry)
  IN IF ~MapHas(imports, spec) THEN {}
     ELSE Range(MapGet(imports, spec)) \ Range(MapGet(exportedTypes, entry))

\* C21 (as claimed): every import statement of a bundle is for a specifier
\* that the graph resolves, from the bundled entry, to another entry; its
\* names are the names imported through the specifier that the entry does not
\* declare, in sorted order; and the statements are ordered by specifier.
C21_InterEntryImportsOnly ==
  \A o \in 1..Len(outputs) :
    ~outputs[o].threw =>
      LET entry == outputs[o].entryPoint
          inter == InterImportStatements(outputs[o].text)
      IN /\ \A k \in 1..Len(inter) :
              LET resolved == ResolveSpecifierToEntry(files, nodes, entryRoots, specifierToDts,
                                                      LineSpecifier(inter[k]), entry)
                  listed == LineNames(inter[k])
              IN /\ resolved # Null /\ resolved # entry
                 /\ Range(listed) = UndeclaredImports(entry, LineSpecifier(inter[k]))
                 /\ \A n \in 1..(Len(listed) - 1) : StringLess(listed[n], listed[n + 1])
         /\ \A k \in 1..(Len(inter) - 1) :
              StringLess(LineSpecifier(inter[k]), LineSpecifier(inter[k + 1]))

\* C22 (as claimed): a specifier that the graph resolves to another entry
\* and through which the bundled entry imports no name it does not declare
\* itself has the line import * as <alias> from '<specifier>' in the bundle.
C22_NamespaceImportWhenNoNames ==
  \A o \in 1..Len(outputs) :
    ~outputs[o].threw =>
      LET entry == outputs[o].entryPoint
          imports == MapGet(importedTypes, entry)
      IN \A k \in 1..Len(imports) :
           LET S == imports[k].key
               resolved == ResolveSpecifierToEntry(files, nodes, entryRoots, specifierToDts,
                                                   S, entry)
           IN (resolved # Null /\ resolved # entry /\ UndeclaredImports(entry, S) = {}) =>
                ImportStarLine(GetImportAlias(S), S) \in Range(Lines(outputs[o].text))

\* ------------------------------------------ same-package re-exports
\* The statements export { names } from '<relative specifier>' in the files
\* the bundler of entry works over.
SamePackageReexports(entry) ==
  {st \in UNION {Range(files[k].statements) :
                   k \in {f \in 1..Len(files) :
                            /\ EndsWithDts(files[f].fileName)
                            /\ StartsWith(files[f].fileName, Dirname(entry))}} :
     st.kind = "export" /\ st.clause = "named" /\ st.spec # <<>> /\ IsSamePackage(st.spec)}

\* C23 (as claimed): bundling an entry whose files hold
\* export { X } from './y' raises no error, and the bundle holds the
\* statement as export { X }; without its source clause.
C23_ReexportKeepsBraces ==
  \A o \in 1..Len(outputs) :
    \A st \in SamePackageReexports(outputs[o].entryPoint) :
       /\ ~outputs[o].threw
       /\ PrintStatement(ExportNamed(<<>>, st.names)) \in Range(Lines(outputs[o].text))

\* -------------------------------------------- import type references
\* The alias before the dot of a printed qualified name, '' for a token
\* without a dot.
TokenQualifier(tk) ==
  IF "." \in Range(tk) THEN SubSeq(tk, 1, IndexOf(tk, ".") - 1) ELSE <<>>

\* C24 (as claimed): in every bundle each statement with references
\* import("S").T is printed with <alias(S)>.T for an external S and the bare T
\* for a relative S, S being the specifier of that very reference, and every
\* alias that qualifies a name in a declaration has its import type * as line
\* above that declaration.
C24_ReferenceKeepsItsSpecifier ==
  \A o \in 1..Len(outputs) :
    ~outputs[o].threw =>
      LET lines == Lines(outputs[o].text)
      IN /\ \A k \in 1..Len(files) :
              (EndsWithDts(files[k].fileName)
                 /\ StartsWith(files[k].fileName, Dirname(outputs[o].entryPoint))) =>
                \A s \in 1..Len(files[k].statements) :
                  LET st == files[k].statements[s]
                  IN (\E m \in Range(ImportTypeNodes(st)) : m.qualifier # <<>>) =>
                       PrintStatement(ExpectedStatement(st)) \in Range(lines)
         /\ \A j \in 1..Len(lines) :
              (\E name \in {Foo, NameG, NameY, NameZ} : DeclaresInterface(lines[j], name)) =>
                \A tk \in Range(lines[j]) :
                  TokenQualifier(tk) # <<>> =>
                    \E i \in 1..(j - 1) :
                      /\ Len(lines[i]) = 4
                      /\ lines[i][1] = Keyword("import type * as")
                      /\ lines[i][2] = TokenQualifier(tk)

\* ------------------------------------------------ the generated aliases
\* The import type * as lines of a bundle.
ImportTypeLines(text) ==
  SelectSeq(Lines(text), LAMBDA l : Len(l) = 4 /\ l[1] = Keyword("import type * as"))

\* C27 (as claimed): the import type * as lines of one bundle bind pairwise
\* distinct aliases: two lines for different specifiers have different
\* aliases.
C27_AliasesDistinct ==
  \A o \in 1..Len(outputs) :
    ~outputs[o].threw =>
      LET tl == ImportTypeLines(outputs[o].text)
      IN \A i, j \in 1..Len(tl) : tl[i][4] # tl[j][4] => tl[i][2] # tl[j][2]

\* ------------------------------------------------ properties of a run
\* The text the run last wrote to a path.
LastWritten(path) ==
  writeLog[CHOOSE i \in 1..Len(writeLog) :
             writeLog[i][1] = path /\ \A j \in (i + 1)..Len(writeLog) : writeLog[j][1] # path][2]

\* C9: once the validation of the entry at position pos has raised a
\* diagnostic the run has ended with a non-zero status, no bundler was created
\* and nothing generated or written for a later entry, and every file written
\* so far is on disk with the text last written to it.
C9_ValidationFailureAborts ==
  (HasDiagnostics(validationDiagnostics) /\ rpc # "validate") =>
    /\ rpc = "exit" /\ exitCode # 0 /\ thrown = "validate"
    /\ Len(bundlers) = pos /\ Len(generated) = pos /\ Len(writeLog) = pos
    /\ \A j \in 1..Len(writeLog) :
          /\ writeLog[j][1] \in DOMAIN disk
          /\ disk[writeLog[j][1]] = LastWritten(writeLog[j][1])

\* The second of three entries failed validation: one file was written before
\* it, in a directory of its own, and one entry is left unbundled.
C9_Witness ==
  /\ rpc = "exit" /\ thrown = "validate"
  /\ pos = 2 /\ Len(order) = 3
  /\ writeLog[1][1] # writeLog[2][1]

\* C10: with a compilation diagnostic the run does not get past generate():
\* it ends with a non-zero status, the graph is never built, no bundler is
\* created and no output file is written.
C10_CompilationFailureAborts ==
  compileDiagnostics > 0 =>
    /\ rpc = "exit" /\ exitCode # 0 /\ thrown = "compile"
    /\ gpc = "new" /\ nodes = <<>>
    /\ bundlers = <<>> /\ generated = <<>>
    /\ writeLog = <<>> /\ disk = <<>>

\* The run has ended on a compilation diagnostic.
C10_Witness ==
  rpc = "exit" /\ compileDiagnostics > 0 /\ thrown = "compile" /\ Len(entryPoints) = 3


\* ---------------------------------------- properties of the hierarchy
\* The annotated entry calculateRelativePaths returned for an alias.
Annotated(alias) ==
  withRelativePaths[CHOOSE i \in 1..Len(withRelativePaths) :
                      withRelativePaths[i].alias = alias]

\* The listed entries are the two aliases P and P/s, P being entry i.
IsParentAndChild(i, j) ==
  /\ Len(entryPoints) = 2
  /\ i # j
  /\ StartsWith(entryPoints[j].alias, entryPoints[i].alias \o <<"/">>)
  /\ Len(entryPoints[j].alias) > Len(entryPoints[i].alias) + 1

Suffix(i, j) ==
  SubSeq(entryPoints[j].alias, Len(entryPoints[i].alias) + 2, Len(entryPoints[j].alias))

\* C8 (as claimed): for the two aliases P and P/s, in either listing order,
\* the entry for P/s gets parentAlias P and relativePath "./s", and the entry
\* for P gets relativePath "." and no parentAlias.
C8_ParentAndChild ==
  hpc = "relative" =>
    \A i, j \in 1..Len(entryPoints) :
       IsParentAndChild(i, j) =>
         /\ Len(withRelativePaths) = 2
         /\ Annotated(entryPoints[j].alias).parentAlias = entryPoints[i].alias
         /\ Annotated(entryPoints[j].alias).relativePath = <<".", "/">> \o Suffix(i, j)
         /\ Annotated(entryPoints[i].alias).relativePath = <<".">>
         /\ Annotated(entryPoints[i].alias).parentAlias = Undefined


\* ------------------------------------------- the order of a run's writes
\* The permutations of 1..n.
Permutations1(n) == {f \in [1..n -> 1..n] : \A i, j \in 1..n : f[i] = f[j] => i = j}

\* The output path <outDir>/<relativePath>/index.d.ts of the listed entry i.
CanonicalPath(i) == Annotated(entryPoints[i].alias).dtsFile

\* C11 (as claimed): a run that ends with status 0 has written one file per
\* entry point, at the entry's canonical path, in the order of topoSort(),
\* whether or not the graph has cycles; and a bundler is created only when
\* every earlier entry has been written and validated.
C11_OneWritePerEntryInOrder ==
  /\ rpc = "done" =>
       /\ Len(order) = Len(entryPoints)
       /\ Len(writeLog) = Len(entryPoints)
       /\ \E f \in Permutations1(Len(entryPoints)) :
             \A k \in 1..Len(entryPoints) :
                /\ order[k] = entryPoints[f[k]].dtsFile
                /\ writeLog[k] = <<CanonicalPath(f[k]), BundleText(order[k])>>
  /\ rpc \in {"bundle", "validate"} =>
       /\ Len(bundlers) = pos
       /\ Len(generated) = Len(writeLog)
       /\ Len(writeLog) = (IF rpc = "bundle" THEN pos - 1 ELSE pos)

\* ------------------------------------------- properties of the graph
\* The entries reachable from n along one or more edges.
RECURSIVE Closure(_, _)
Closure(E, S) ==
  LET next == S \cup UNION {Range(E[x]) : x \in S}
  IN IF next = S THEN S ELSE Closure(E, next)

ReachableFrom(E, n) == Closure(E, Range(E[n]))

Acyclic(E) == \A n \in DOMAIN E : n \notin ReachableFrom(E, n)

SameComponent(E, a, b) == a \in ReachableFrom(E, b) /\ b \in ReachableFrom(E, a)

\* The paths of k distinct entries, each depending on the next.
RECURSIVE SimplePaths(_, _)
SimplePaths(E, k) ==
  IF k = 1 THEN {<<n>> : n \in DOMAIN E}
  ELSE UNION {{Append(p, m) : m \in Range(E[p[Len(p)]]) \ Range(p)} :
                p \in SimplePaths(E, k - 1)}

\* The elementary cycles of the edge graph, each as the sequence of its
\* distinct entries, c[i] depending on c[i+1] and the last on the first.
ElementaryCycles(E) ==
  {c \in UNION {SimplePaths(E, k) : k \in 1..Cardinality(DOMAIN E)} :
      Includes(E[c[Len(c)]], c[1])}

\* Record r walks exactly the loop c: it starts at one of c's entries, follows
\* c once around and ends where it started.
Traverses(r, c) ==
  /\ Len(r) = Len(c) + 1
  /\ \E k \in 0..(Len(c) - 1) :
        \A i \in 1..Len(r) : r[i] = c[((i - 1 + k) % Len(c)) + 1]

Occurrences(s, x) == Cardinality({i \in 1..Len(s) : s[i] = x})

\* C1 (as claimed): in an acyclic graph, topoSort() places every dependency Y
\* of every entry X at a strictly smaller index than X.
C1_DependenciesFirst ==
  (gpc = "sorted" /\ Acyclic(edges)) =>
    \A X \in Range(nodes) : \A Y \in Range(edges[X]) :
       /\ Includes(order, X) /\ Includes(order, Y)
       /\ IndexOf(order, Y) < IndexOf(order, X)

\* C2 (as claimed): topoSort() returns a permutation of the entry list: every
\* entry appears, none appears twice, nothing else appears.
C2_OrderIsPermutation ==
  gpc = "sorted" =>
    /\ Len(order) = Len(nodes)
    /\ Range(order) = Range(nodes)
    /\ NoDup(order)

C18_RecordsAreClosedWalks ==
  gpc \in {"built", "sorted"} =>
    /\ \A r \in 1..Len(cycles) :
          LET c == cycles[r]
          IN /\ Len(c) >= 2
             /\ c[1] = c[Len(c)]
             /\ \A i \in 1..(Len(c) - 1) : Includes(edges[c[i]], c[i + 1])
             /\ NoDup(SubSeq(c, 1, Len(c) - 1))
    /\ (cycles = <<>>) <=> Acyclic(edges)

\* A record that starts below the root of its search: the loop of three
\* entries is entered from an entry that is not on it.
C18_Witness ==
  /\ gpc = "built"
  /\ \E r \in 1..Len(cycles) :
        /\ Len(cycles[r]) = 4
        /\ cycles[r][1] # nodes[1]
        /\ nodes[1] \notin Range(cycles[r])
        /\ cycles[r][1] \in ReachableFrom(edges, nodes[1])

\* Two records of getCycles() walk the same elementary cycle.
RecordedTwice ==
  \E i, j \in 1..Len(cycles) :
     i < j /\ Traverses(cycles[i], SubSeq(cycles[j], 1, Len(cycles[j]) - 1))

\* A loop is reached from two entries that are not on it and do not reach
\* each other: it is reachable from several roots of the search.
ReachedFromSeveralRoots ==
  \E r \in 1..Len(cycles) : \E a, b \in Range(nodes) \ Range(cycles[r]) :
     /\ a # b
     /\ cycles[r][1] \in ReachableFrom(edges, a)
     /\ cycles[r][1] \in ReachableFrom(edges, b)
     /\ a \notin ReachableFrom(edges, b)
     /\ b \notin ReachableFrom(edges, a)

\* C19 (as claimed): when a loop is reachable from several roots, getCycles()
\* holds the same elementary cycle more than once after construction.
C19_SomeCycleTwice ==
  (gpc \in {"built", "sorted"} /\ ReachedFromSeveralRoots) => RecordedTwice

\* C19 (amended): records are appended without deduplication, yet after
\* construction no two records of getCycles() walk the same elementary cycle,
\* however many roots reach the loop.
C19_NoCycleTwice == gpc \in {"built", "sorted"} => ~RecordedTwice

\* A graph was built in which a recorded loop is reachable from several
\* roots, and sorted.
C19_Witness == gpc = "sorted" /\ ReachedFromSeveralRoots /\ Len(nodes) >= 4

\* An entry that neither lies on a cycle nor depends on one.
OffCycles(n) ==
  /\ n \notin ReachableFrom(edges, n)
  /\ \A m \in ReachableFrom(edges, n) : m \notin ReachableFrom(edges, m)

\* The place in order at which the last dependency of n is emitted.
RECURSIVE LastDependency(_, _)
LastDependency(n, i) ==
  IF i = 0 THEN 0
  ELSE IF Includes(edges[n], order[i]) THEN i
  ELSE LastDependency(n, i - 1)

\* C20 (as claimed): topoSort() emits the entries without dependencies
\* first, in entry order; an entry with dependencies that lies off every
\* cycle comes after its last dependency, and before every entry whose last
\* dependency is emitted later; the entries left over, which exist only in a
\* graph with a cycle, follow in entry order.
C20_FirstInFirstOut ==
  gpc = "sorted" =>
    LET ready == SelectSeq(nodes, LAMBDA n : edges[n] = <<>>)
        left == SelectSeq(nodes, LAMBDA n : ~OffCycles(n))
        waiting == {n \in Range(nodes) : edges[n] # <<>> /\ OffCycles(n)}
    IN /\ Len(order) >= Len(ready) + Len(left)
       /\ SubSeq(order, 1, Len(ready)) = ready
       /\ SubSeq(order, Len(order) - Len(left) + 1, Len(order)) = left
       /\ left # <<>> => ~Acyclic(edges)
       /\ \A X \in waiting :
            /\ Includes(order, X)
            /\ LastDependency(X, Len(order)) < IndexOf(order, X)
            /\ \A Y \in waiting :
                 LastDependency(X, Len(order)) < LastDependency(Y, Len(order))
                   => IndexOf(order, X) < IndexOf(order, Y)

\* ------------------------------------ properties of the hierarchy tree
\* The PathNodes buildHierarchy has linked for the listed entries.
Tree == BuildHierarchy(entryPoints)

\* p is a proper prefix of c.
IsProperPrefix(p, c) == Len(p) < Len(c) /\ SubSeq(c, 1, Len(p)) = p

\* The nodes met by following the parent links from node i, at most k links.
RECURSIVE Ancestors(_, _, _)
Ancestors(tree, i, k) ==
  IF k = 0 \/ tree[i].parent = 0 THEN {}
  ELSE {tree[i].parent} \cup Ancestors(tree, tree[i].parent, k - 1)

\* C13 (as claimed): a node has a parent exactly when the segment list of
\* another entry is a proper prefix of its own; the parent is an entry with
\* the longest such prefix; the parent links have no loop; and a node is in
\* the child list of its parent once and in no other child list.
C13_LongestPrefixParent ==
  hpc = "relative" =>
    LET tree == Tree
    IN \A i \in 1..Len(tree) :
         LET segs == tree[i].segments
             prefixes == {j \in 1..Len(tree) : IsProperPrefix(tree[j].segments, segs)}
         IN /\ (tree[i].parent # 0) <=> (prefixes # {})
            /\ tree[i].parent # 0 =>
                 /\ tree[i].parent \in prefixes
                 /\ \A j \in prefixes :
                       Len(tree[j].segments) <= Len(tree[tree[i].parent].segments)
                 /\ Occurrences(tree[tree[i].parent].children, i) = 1
            /\ i \notin Ancestors(tree, i, Len(tree))
            /\ \A k \in 1..Len(tree) : k # tree[i].parent => ~Includes(tree[k].children, i)

\* The root a node hangs below (the node itself when it has no parent).
RECURSIVE RootAncestor(_, _)
RootAncestor(tree, i) == IF tree[i].parent = 0 THEN i ELSE RootAncestor(tree, tree[i].parent)

\* The segments of node i that follow the segment list of node a.
SegmentsBeyond(tree, i, a) ==
  SubSeq(tree[i].segments, Len(tree[a].segments) + 1, Len(tree[i].segments))

\* C14 (as claimed): calculateRelativePaths returns one annotated entry for
\* each entry; a root gets ".", and a node below a root gets "./" followed by
\* its segments beyond those of its root ancestor, which is its parent's
\* relativePath joined with its segments beyond the parent's.
C14_RelativePathFromRoot ==
  hpc = "relative" =>
    LET tree == Tree
    IN /\ Len(withRelativePaths) = Len(entryPoints)
       /\ \A i \in 1..Len(tree) :
            /\ Cardinality({k \in 1..Len(withRelativePaths) :
                              withRelativePaths[k].alias = tree[i].alias}) = 1
            /\ Annotated(tree[i].alias).relativePath =
                 IF tree[i].parent = 0 THEN <<".">>
                 ELSE <<".", "/">> \o Join(SegmentsBeyond(tree, i, RootAncestor(tree, i)), "/")
            /\ tree[i].parent # 0 =>
                 Annotated(tree[i].alias).relativePath =
                   <<".", "/">> \o PosixJoin(<<Annotated(tree[tree[i].parent].alias).relativePath>>
                                              \o SegmentsBeyond(tree, i, tree[i].parent))


\* C25 (as claimed): the entry points have pairwise distinct aliases, and
\* after calculateRelativePaths and calculateDtsFilePath no two of them have
\* the same output path.
C25_DistinctOutputPaths ==
  hpc = "paths" =>
    \A i, j \in 1..Len(withRelativePaths) :
       withRelativePaths[i].alias # withRelativePaths[j].alias =>
         withRelativePaths[i].dtsFile # withRelativePaths[j].dtsFile

\* C26 (as claimed): in a graph with a cycle, topoSort() still places Y
\* before X for every edge X -> Y whose ends are not in one strongly
\* connected component.
C26_OnlyCyclesMisordered ==
  (gpc = "sorted" /\ ~Acyclic(edges)) =>
    \A X \in Range(nodes) : \A Y \in Range(edges[X]) :
       ~SameComponent(edges, X, Y) =>
         /\ Includes(order, X) /\ Includes(order, Y)
         /\ IndexOf(order, Y) < IndexOf(order, X)

\* C28 (as claimed): at no point of a run, and not after its end, does a
\* file on disk hold the text of a bundle whose validation raises a
\* diagnostic.
C28_NoInvalidBundleOnDisk ==
  (writeLog # <<>> /\ HasDiagnostics(validationDiagnostics)) =>
    LET written == writeLog[Len(writeLog)]
    IN ~(written[1] \in DOMAIN disk /\ disk[written[1]] = written[2])

vars == <<graphVars, hierVars, runVars, bundleVars>>

SpecGraph == GraphInit /\ [][GraphNext]_vars

SpecHier == HierInit /\ [][HierNext]_vars

SpecRun == RunInit /\ [][RunNext]_vars

SpecBundle == BundleInit /\ [][BundleNext]_vars

====
